---------------------------- MODULE Spec2Model ----------------------------
(***************************************************************************)
(* VehicleStudio image pipeline (most recent revision of the process       *)
(* route, src/unnamed/part_006 lines 197-1318): alpha bounds analysis,     *)
(* photo-mode classification, shadow conditioning and the scale/placement  *)
(* solver; and the batch scheduler of the studio page,                     *)
(* src/src/app/(protected)/studio/page.tsx lines 303-374.                  *)
(*                                                                         *)
(* Numbers.  The route computes with IEEE doubles; the model computes with *)
(* exact rationals <<n, d>> (d > 0, lowest terms).  Math.round(x) is       *)
(* floor(x + 1/2).  Pixel buffers are rasters of [c, a] pixels, row-major, *)
(* c standing for the RGB triple (the route always moves the three colour  *)
(* bytes together) and a for the alpha byte.                               *)
(***************************************************************************)
EXTENDS Integers, Sequences, FiniteSets, TLC

VARIABLES
    pc,              \* position inside the operation a specification runs
    cutout,          \* the cutout buffer handed to the analyzer / conditioner
    analysis,        \* SubjectAnalysis returned by analyzeSubjectBounds
    classification,  \* ClassificationResult returned by classifyPhotoMode
    analysisB,       \* a second SubjectAnalysis (classifier comparisons)
    classificationB, \* its ClassificationResult
    shadowIntensity, \* the shadowIntensity argument of compositeImage
    adjusted,        \* shadowAdjustedCutout (adjustShadowIntensity's result)
    faded,           \* resultData after step 2 of softenShadowEdges
    blurred,         \* blurredData after step 3 of softenShadowEdges
    softened,        \* blurredData after step 4: softenShadowEdges' result
    padded,          \* paddedBuffer, padding and the translated soft and solid boxes
    upload,          \* originalMeta of the raw upload: [width, height]
    profileCarScale, \* profile.car_scale, a whole percentage (0: not set)
    subject,         \* what the removal service will cut out of the upload
    is16by9,         \* POST's reprocessing flag
    effectiveCarScale, \* the carScale argument POST gives compositeImage
    plan,            \* canvas size, scale and offsets compositeImage computes
    env,             \* process.env: NODE_ENV and PROCESS_DEBUG_OVERLAY
    service,         \* how the removal service answers this request
    logo,            \* the object logos/<user id>.png of the storage
    background,      \* the user background and the template file on disk
    serviceCalls,    \* number of requests sent to the removal service
    logoBuffer,      \* POST's logoBuffer
    output,          \* the layers of the image compositeImage returns
    stored,          \* the storage buckets the request has written to
    response,        \* the response POST returns
    images,          \* the studio page's images: status of every image id
    isProcessing,    \* the studio page's isProcessing state
    pendingImages,   \* processAll: the ids that were pending when it started
    aborted,         \* processAll: signal.aborted
    queue,           \* processAll: ids not yet taken
    processing,      \* processAll: the set processing
    inFlight,        \* ids whose fetch('/api/process') has not settled
    submitted,       \* number of fetches per id since processAll started
    awaited          \* in-flight ids held by a worker that Promise.all awaits

analysisVars == <<cutout, analysis, classification, analysisB, classificationB>>
shadowVars == <<shadowIntensity, adjusted, faded, blurred, softened, padded>>
planVars == <<upload, profileCarScale, subject, is16by9, effectiveCarScale, plan>>

ioVars == <<env, service, logo, background, serviceCalls, logoBuffer, output, stored, response>>

batchVars == <<images, isProcessing, pendingImages, aborted, queue, processing,
               inFlight, submitted, awaited>>

vars == <<pc, analysisVars, shadowVars, planVars, ioVars, batchVars>>

\* Placeholder held by a variable that an operation has not written yet.
None == [none |-> TRUE]

\* the studio page's variables while the process route is looked at
BatchIdle ==
    /\ images = None
    /\ isProcessing = None
    /\ pendingImages = None
    /\ aborted = None
    /\ queue = None
    /\ processing = None
    /\ inFlight = None
    /\ submitted = None
    /\ awaited = None

\* the conditioner's variables while another operation runs
ShadowIdle ==
    /\ shadowIntensity = None
    /\ adjusted = None
    /\ faded = None
    /\ blurred = None
    /\ softened = None
    /\ padded = None

\* the request's and the solver's variables while another operation runs
PlanIdle ==
    /\ upload = None
    /\ profileCarScale = None
    /\ subject = None
    /\ is16by9 = None
    /\ effectiveCarScale = None
    /\ plan = None
    /\ env = None
    /\ service = None
    /\ logo = None
    /\ background = None
    /\ serviceCalls = None
    /\ logoBuffer = None
    /\ output = None
    /\ stored = None
    /\ response = None

\* the request before POST has called anything
RequestStart ==
    /\ serviceCalls = 0
    /\ logoBuffer = None
    /\ output = None
    /\ stored = {}
    /\ response = None

-----------------------------------------------------------------------------
(* Exact rational arithmetic *)

Abs(n) == IF n < 0 THEN -n ELSE n

RECURSIVE GCD(_, _)
GCD(a, b) == IF b = 0 THEN a ELSE GCD(b, a % b)

\* n/d in lowest terms, d > 0
Rat(n, d) == LET g == GCD(Abs(n), d) IN <<n \div g, d \div g>>

RatInt(n) == <<n, 1>>

\* n1/d1 < n2/d2 (d1, d2 > 0), by continued-fraction descent so that no
\* product of two large numbers is formed
RECURSIVE FracLess(_, _, _, _)
FracLess(n1, d1, n2, d2) ==
    LET q1 == n1 \div d1
        q2 == n2 \div d2
        r1 == n1 % d1
        r2 == n2 % d2
    IN  IF q1 # q2 THEN q1 < q2
        ELSE IF r1 = 0 \/ r2 = 0 THEN (r1 = 0 /\ r2 > 0)
        ELSE FracLess(d2, r2, d1, r1)

RatLt(a, b) == FracLess(a[1], a[2], b[1], b[2])
RatGt(a, b) == RatLt(b, a)
RatLe(a, b) == ~RatLt(b, a)
RatGe(a, b) == ~RatLt(a, b)
RatMin(a, b) == IF RatLt(b, a) THEN b ELSE a
RatMax(a, b) == IF RatLt(a, b) THEN b ELSE a

RatMul(a, b) ==
    LET g1 == GCD(Abs(a[1]), b[2])
        g2 == GCD(Abs(b[1]), a[2])
    IN  <<(a[1] \div g1) * (b[1] \div g2), (a[2] \div g2) * (b[2] \div g1)>>

\* a / b for b # 0: the denominator of the quotient is kept positive
RatDiv(a, b) ==
    IF b[1] < 0 THEN RatMul(a, <<-b[2], -b[1]>>) ELSE RatMul(a, <<b[2], b[1]>>)

RatAdd(a, b) ==
    LET g == GCD(a[2], b[2])
    IN  Rat(a[1] * (b[2] \div g) + b[1] * (a[2] \div g), (a[2] \div g) * b[2])

RatNeg(a) == <<-a[1], a[2]>>
RatSub(a, b) == RatAdd(a, RatNeg(b))

RatFloor(a) == a[1] \div a[2]

\* Math.round: the nearest integer, halves rounded up
Round(a) == (a[1] \div a[2]) + (IF 2 * (a[1] % a[2]) >= a[2] THEN 1 ELSE 0)

IsInteger(a) == a[2] = 1

Min2(a, b) == IF a < b THEN a ELSE b
Max2(a, b) == IF a > b THEN a ELSE b

-----------------------------------------------------------------------------
(* Pixel buffers *)

\* A decoded raster: width, height, and width*height pixels, row-major.
\* meta is what sharp(...).metadata() reports for the encoded buffer;
\* decode says whether the raw pixel decode succeeds.
Pixel(c, a) == [c |-> c, a |-> a]

\* alpha of pixel (x, y): data[(y * width + x) * channels + 3]
AlphaAt(img, x, y) == img.px[y * img.width + x + 1].a


\* sharp(...).ensureAlpha(): a buffer without alpha channel decodes with
\* every alpha byte 255
EnsureAlpha(buf) ==
    IF buf.hasAlpha THEN buf.px
    ELSE [i \in 1..Len(buf.px) |-> Pixel(buf.px[i].c, 255)]

-----------------------------------------------------------------------------
(* Alpha Bounds Analyzer: analyzeSubjectBounds *)

\* let soft: Bounds = { minX: width, maxX: 0, minY: height, maxY: 0, valid: false }
EmptyBounds(width, height) ==
    [minX |-> width, maxX |-> 0, minY |-> height, maxY |-> 0, valid |-> FALSE]

\* the four "if (x < b.minX) b.minX = x" updates, and b.valid = true
ExpandBounds(b, x, y) ==
    [minX |-> Min2(b.minX, x), maxX |-> Max2(b.maxX, x),
     minY |-> Min2(b.minY, y), maxY |-> Max2(b.maxY, y), valid |-> TRUE]

FullFrameInvalid(width, height) ==
    [minX |-> 0, maxX |-> width - 1, minY |-> 0, maxY |-> height - 1, valid |-> FALSE]

finalizeBoundsSkipped(bounds, width, height) == bounds
finalizeBounds(bounds, width, height) ==
    IF ~bounds.valid THEN FullFrameInvalid(width, height) ELSE bounds

IsSoft(alpha) == alpha > 20

IsSolidSwapped(alpha) == alpha > 2
IsSolid(alpha) == alpha > 200

IsOpaqueFromSolidThreshold(alpha) == alpha >= 200
IsOpaque(alpha) == alpha > 250

\* Math.max(0, height - Math.round(height * 0.02))
BottomBandStart(height) == Max2(0, height - Round(Rat(2 * height, 100)))

\* body of the two nested pixel loops for pixel (x, y)
ScanPixel(acc, x, y, alpha, bandStart) ==
    [soft |-> IF IsSoft(alpha) THEN ExpandBounds(acc.soft, x, y) ELSE acc.soft,
     solid |-> IF IsSolid(alpha) THEN ExpandBounds(acc.solid, x, y) ELSE acc.solid,
     softPixels |-> acc.softPixels + (IF IsSoft(alpha) THEN 1 ELSE 0),
     solidPixels |-> acc.solidPixels + (IF IsSolid(alpha) THEN 1 ELSE 0),
     opaquePixels |-> acc.opaquePixels + (IF IsOpaque(alpha) THEN 1 ELSE 0),
     bottomSoftColumns |->
        IF IsSoft(alpha) /\ y >= bandStart
        THEN [acc.bottomSoftColumns EXCEPT ![x] = 1]
        ELSE acc.bottomSoftColumns]

\* for (let x = 0; x < width; x++): the pixels of row y from column x on
RECURSIVE ScanRow(_, _, _, _, _, _)
ScanRow(px, width, bandStart, y, x, acc) ==
    IF x >= width THEN acc
    ELSE ScanRow(px, width, bandStart, y, x + 1,
                 ScanPixel(acc, x, y, px[y * width + x + 1].a, bandStart))

\* for (let y = 0; y < height; y++): the rows from the one pixel i starts on.
\* The comparison of the count (it always holds) makes a row's result a
\* value before the next row is entered.
RECURSIVE ScanPixels(_, _, _, _, _)
ScanPixels(px, width, bandStart, i, acc) ==
    IF i >= Len(px) THEN acc
    ELSE LET row == ScanRow(px, width, bandStart, i \div width, 0, acc)
         IN  IF row.softPixels <= Len(px)
             THEN ScanPixels(px, width, bandStart, i + width, row)
             ELSE row

RECURSIVE SumColumns(_, _)
SumColumns(cols, x) == IF x < 0 THEN 0 ELSE cols[x] + SumColumns(cols, x - 1)

\* the try block of analyzeSubjectBounds
AnalyzeDecoded(buf) ==
    LET width == buf.width
        height == buf.height
        totalPixels == width * height
        acc0 == [soft |-> EmptyBounds(width, height),
                 solid |-> EmptyBounds(width, height),
                 softPixels |-> 0, solidPixels |-> 0, opaquePixels |-> 0,
                 bottomSoftColumns |-> [x \in 0..(width - 1) |-> 0]]
        acc == ScanPixels(EnsureAlpha(buf), width, BottomBandStart(height), 0, acc0)
        soft == finalizeBounds(acc.soft, width, height)
        solid == finalizeBounds(acc.solid, width, height)
        softWidth == soft.maxX - soft.minX + 1
        softHeight == soft.maxY - soft.minY + 1
        bottomTouchCount == SumColumns(acc.bottomSoftColumns, width - 1)
    IN  [bufferWidth |-> width,
         bufferHeight |-> height,
         hasAlpha |-> buf.hasAlpha,
         soft |-> soft,
         solid |-> solid,
         softCoverage |-> Rat(acc.softPixels, totalPixels),
         solidCoverage |-> Rat(acc.solidPixels, totalPixels),
         softWidthPct |-> Rat(softWidth, width),
         softHeightPct |-> Rat(softHeight, height),
         bottomTouchRatio |-> IF width > 0 THEN Rat(bottomTouchCount, width) ELSE RatInt(0),
         opaqueRatio |-> Rat(acc.opaquePixels, totalPixels)]

\* meta.width || 2000: a missing (0) value takes the default
OrDefault(v, d) == IF v = 0 THEN d ELSE v

\* the catch block of analyzeSubjectBounds
AnalyzeFallback(buf) ==
    LET bufferWidth == OrDefault(buf.width, 2000)
        bufferHeight == OrDefault(buf.height, 1500)
    IN  [bufferWidth |-> bufferWidth,
         bufferHeight |-> bufferHeight,
         hasAlpha |-> buf.hasAlpha,
         soft |-> FullFrameInvalid(bufferWidth, bufferHeight),
         solid |-> FullFrameInvalid(bufferWidth, bufferHeight),
         softCoverage |-> RatInt(1),
         solidCoverage |-> RatInt(1),
         softWidthPct |-> RatInt(1),
         softHeightPct |-> RatInt(1),
         bottomTouchRatio |-> RatInt(1),
         opaqueRatio |-> RatInt(1)]

\* analyzeSubjectBounds for a buffer whose metadata can be read
analyzeSubjectBounds(buf) ==
    IF buf.decode = "ok" THEN AnalyzeDecoded(buf) ELSE AnalyzeFallback(buf)

-----------------------------------------------------------------------------
(* Photo-Mode Classifier: classifyPhotoMode *)

Pct(n, d) == Rat(n, d)

\* the classifier of the superseded revision (mode only; it reads
\* bottomTouchRatio and solidCoverage), kept as the shape a regression
\* to the old rules would have
classifyPhotoModeLegacy(a) ==
    LET nearFullFrame == RatGt(a.softWidthPct, Pct(95, 100)) /\ RatGt(a.softHeightPct, Pct(95, 100))
        largeCoverage == RatGt(a.softCoverage, Pct(9, 10)) \/ RatGt(a.solidCoverage, Pct(85, 100))
        tallSubject == RatGt(a.softHeightPct, Pct(75, 100))
        wideSubject == RatGt(a.softWidthPct, Pct(9, 10))
        heavyBottomTouch == RatGt(a.bottomTouchRatio, Pct(6, 10))
        hint == RatGt(a.opaqueRatio, Pct(85, 100)) /\ RatGt(a.softCoverage, Pct(85, 100))
    IN  IF ~a.hasAlpha THEN [mode |-> "interior", interiorHint |-> TRUE]
        ELSE IF ~a.soft.valid \/ ~a.solid.valid THEN [mode |-> "interior", interiorHint |-> TRUE]
        ELSE IF nearFullFrame /\ largeCoverage THEN [mode |-> "interior", interiorHint |-> TRUE]
        ELSE IF tallSubject \/ wideSubject \/ heavyBottomTouch
             THEN [mode |-> "interior", interiorHint |-> TRUE]
        ELSE [mode |-> "exterior", interiorHint |-> hint]

\* rule 3 with its conjunction weakened to "either"
classifyPhotoModeAnyOf(a) ==
    LET fullyOpaque == RatGt(a.opaqueRatio, Pct(995, 1000))
        almostFullFrame == RatGt(a.softWidthPct, Pct(96, 100)) /\ RatGt(a.softHeightPct, Pct(96, 100))
        extremelyCovered == RatGt(a.softCoverage, Pct(99, 100))
        hint == RatGt(a.opaqueRatio, Pct(85, 100)) /\ RatGt(a.softCoverage, Pct(85, 100))
    IN  IF ~a.hasAlpha THEN [mode |-> "interior", interiorHint |-> TRUE]
        ELSE IF ~a.soft.valid \/ ~a.solid.valid THEN [mode |-> "interior", interiorHint |-> TRUE]
        ELSE IF fullyOpaque /\ (almostFullFrame \/ extremelyCovered)
             THEN [mode |-> "interior", interiorHint |-> TRUE]
        ELSE [mode |-> "exterior", interiorHint |-> hint]

\* the hint promoted to a rule: interior characteristics decide the mode
classifyPhotoModeHintDecides(a) ==
    LET fullyOpaque == RatGt(a.opaqueRatio, Pct(995, 1000))
        almostFullFrame == RatGt(a.softWidthPct, Pct(96, 100)) /\ RatGt(a.softHeightPct, Pct(96, 100))
        extremelyCovered == RatGt(a.softCoverage, Pct(99, 100))
        hint == RatGt(a.opaqueRatio, Pct(85, 100)) /\ RatGt(a.softCoverage, Pct(85, 100))
    IN  IF ~a.hasAlpha THEN [mode |-> "interior", interiorHint |-> TRUE]
        ELSE IF ~a.soft.valid \/ ~a.solid.valid THEN [mode |-> "interior", interiorHint |-> TRUE]
        ELSE IF (fullyOpaque /\ almostFullFrame /\ extremelyCovered) \/ hint
             THEN [mode |-> "interior", interiorHint |-> TRUE]
        ELSE [mode |-> "exterior", interiorHint |-> hint]

classifyPhotoMode(a) ==
    LET hasInteriorCharacteristics ==
            RatGt(a.opaqueRatio, Pct(85, 100)) /\ RatGt(a.softCoverage, Pct(85, 100))
        fullyOpaque == RatGt(a.opaqueRatio, Pct(995, 1000))
        almostFullFrame ==
            RatGt(a.softWidthPct, Pct(96, 100)) /\ RatGt(a.softHeightPct, Pct(96, 100))
        extremelyCovered == RatGt(a.softCoverage, Pct(99, 100))
    IN  IF ~a.hasAlpha THEN [mode |-> "interior", interiorHint |-> TRUE]
        ELSE IF ~a.soft.valid \/ ~a.solid.valid
             THEN [mode |-> "interior", interiorHint |-> TRUE]
        ELSE IF fullyOpaque /\ almostFullFrame /\ extremelyCovered
             THEN [mode |-> "interior", interiorHint |-> TRUE]
        ELSE [mode |-> "exterior", interiorHint |-> hasInteriorCharacteristics]


-----------------------------------------------------------------------------
(* Specification SpecAnalyze: analyzeSubjectBounds, then classifyPhotoMode,  *)
(* as compositeImage calls them, over every small raster                    *)

\* rasters hold at most MaxPixels pixels
MaxPixels == 4

\* alpha bytes on both sides of the thresholds 20, 200 and 250
AlphaLevels == {0, 20, 21, 200, 201, 250, 251}

RasterDims == {d \in (1..MaxPixels) \X (1..MaxPixels) : d[1] * d[2] <= MaxPixels}

\* decodable rasters with an alpha channel
AlphaRasters ==
    UNION {[width : {d[1]}, height : {d[2]}, hasAlpha : {TRUE}, decode : {"ok"},
            px : [1..(d[1] * d[2]) -> {Pixel(0, a) : a \in AlphaLevels}]] : d \in RasterDims}

\* decodable rasters without alpha channel (colour bytes only)
OpaqueRasters ==
    UNION {[width : {d[1]}, height : {d[2]}, hasAlpha : {FALSE}, decode : {"ok"},
            px : {[i \in 1..(d[1] * d[2]) |-> Pixel(0, 255)]}] : d \in RasterDims}

\* buffers whose header can be read (or gives no size: 0) but whose pixels
\* cannot be decoded, and buffers whose header cannot be read at all
BrokenBuffers ==
    [width : {0, 2, 3}, height : {0, 2}, hasAlpha : BOOLEAN,
     decode : {"rawFails", "metaFails"}, px : {<<>>}]

\* the side of the large square rasters: from 15 on, one pixel is less than
\* 0.5% of the frame (17 x 17 = 289 pixels)
NearlyOpaqueSide == 17

\* opaque rasters of NearlyOpaqueSide x NearlyOpaqueSide pixels but for the
\* first pixel and the centre pixel, which take any level
NearlyOpaqueRasters ==
    {[width |-> NearlyOpaqueSide, height |-> NearlyOpaqueSide, hasAlpha |-> TRUE,
      decode |-> "ok",
      px |-> [i \in 1..(NearlyOpaqueSide * NearlyOpaqueSide) |->
                IF i = 1 THEN Pixel(0, corner)
                ELSE IF i = (NearlyOpaqueSide * NearlyOpaqueSide + 1) \div 2
                     THEN Pixel(0, centre)
                     ELSE Pixel(0, 255)]] :
        corner \in AlphaLevels \cup {255}, centre \in {0, 201, 255}}

AnalyzerInputs == AlphaRasters \cup OpaqueRasters \cup BrokenBuffers \cup NearlyOpaqueRasters

InitAnalyze ==
    /\ BatchIdle
    /\ pc = "analyze"
    /\ cutout \in AnalyzerInputs
    /\ analysis = None
    /\ classification = None
    /\ analysisB = None
    /\ classificationB = None
    /\ ShadowIdle
    /\ PlanIdle

\* const analysis = await analyzeSubjectBounds(cutoutBuffer)
Analyze ==
    /\ pc = "analyze"
    /\ cutout.decode # "metaFails"
    /\ analysis' = analyzeSubjectBounds(cutout)
    /\ pc' = "classify"
    /\ UNCHANGED <<batchVars, cutout, classification, analysisB, classificationB, shadowVars, planVars, ioVars>>

\* sharp(imageBuffer).metadata() rejects before the try block is entered
AnalyzeThrows ==
    /\ pc = "analyze"
    /\ cutout.decode = "metaFails"
    /\ pc' = "threw"
    /\ UNCHANGED <<batchVars, analysisVars, shadowVars, planVars, ioVars>>

\* const { mode, interiorHint } = classifyPhotoMode(analysis)
Classify ==
    /\ pc = "classify"
    /\ classification' = classifyPhotoMode(analysis)
    /\ pc' = "classified"
    /\ UNCHANGED <<batchVars, cutout, analysis, analysisB, classificationB, shadowVars, planVars, ioVars>>

NextAnalyze == Analyze \/ AnalyzeThrows \/ Classify

SpecAnalyze == InitAnalyze /\ [][NextAnalyze]_vars

Analyzed == pc \in {"classify", "classified"}

\* C1: whenever the analyzer returns a valid soft box and a valid solid box,
\* the solid box lies inside the soft box on all four sides.
C1_SolidInsideSoft ==
    (Analyzed /\ analysis.soft.valid /\ analysis.solid.valid) =>
        /\ analysis.soft.minX <= analysis.solid.minX
        /\ analysis.solid.maxX <= analysis.soft.maxX
        /\ analysis.soft.minY <= analysis.solid.minY
        /\ analysis.solid.maxY <= analysis.soft.maxY

\* both boxes valid, the solid one strictly narrower and strictly lower
C1_Witness ==
    /\ Analyzed
    /\ analysis.soft.valid /\ analysis.solid.valid
    /\ analysis.soft.minX < analysis.solid.minX
    /\ analysis.solid.maxY < analysis.soft.maxY

-----------------------------------------------------------------------------
(* Specification SpecClassify: classifyPhotoMode as a function of any pair  *)
(* of analyses                                                              *)

OpaqueRatios == {Pct(850, 1000), Pct(851, 1000), Pct(995, 1000), Pct(996, 1000)}
SoftCoverages == {Pct(850, 1000), Pct(851, 1000), Pct(990, 1000), Pct(991, 1000)}
BoxPcts == {Pct(1, 2), Pct(96, 100), Pct(97, 100)}
BottomTouchRatios == {Pct(5, 10), Pct(7, 10)}
SolidCoverages == {Pct(4, 10), Pct(9, 10)}
BufferWidths == {1000, 2000}

\* an analysis with the given classifier inputs and the given other fields;
\* an invalid box is the full frame, as finalizeBounds leaves it
MakeAnalysis(hasAlpha, softValid, solidValid, opaque, cov, wPct, hPct, touch, solidCov, bw) ==
    [bufferWidth |-> bw,
     bufferHeight |-> 750,
     hasAlpha |-> hasAlpha,
     soft |-> IF softValid
              THEN [minX |-> 10, maxX |-> bw - 11, minY |-> 10, maxY |-> 739, valid |-> TRUE]
              ELSE FullFrameInvalid(bw, 750),
     solid |-> IF solidValid
               THEN [minX |-> 20, maxX |-> bw - 21, minY |-> 20, maxY |-> 700, valid |-> TRUE]
               ELSE FullFrameInvalid(bw, 750),
     softCoverage |-> cov,
     solidCoverage |-> solidCov,
     softWidthPct |-> wPct,
     softHeightPct |-> hPct,
     bottomTouchRatio |-> touch,
     opaqueRatio |-> opaque]

InitClassify ==
    /\ BatchIdle
    /\ pc = "classifyPair"
    /\ cutout = None
    /\ classification = None
    /\ classificationB = None
    /\ ShadowIdle
    /\ PlanIdle
    /\ \E softValid \in BOOLEAN, solidValid \in BOOLEAN,
          opaque \in OpaqueRatios, cov \in SoftCoverages,
          wPct \in BoxPcts, hPct \in BoxPcts :
          /\ \E hasAlpha \in BOOLEAN :
                analysis = MakeAnalysis(hasAlpha, softValid, solidValid, opaque, cov,
                                        wPct, hPct, Pct(5, 10), Pct(4, 10), 1000)
          /\ \E hasAlphaB \in BOOLEAN, touch \in BottomTouchRatios,
                solidCov \in SolidCoverages, bw \in BufferWidths :
                analysisB = MakeAnalysis(hasAlphaB, softValid, solidValid, opaque, cov,
                                         wPct, hPct, touch, solidCov, bw)

\* two calls of classifyPhotoMode
ClassifyPair ==
    /\ pc = "classifyPair"
    /\ classification' = classifyPhotoMode(analysis)
    /\ classificationB' = classifyPhotoMode(analysisB)
    /\ pc' = "classifiedPair"
    /\ UNCHANGED <<batchVars, cutout, analysis, analysisB, shadowVars, planVars, ioVars>>

NextClassify == ClassifyPair

SpecClassify == InitClassify /\ [][NextClassify]_vars

Rule1(a) == ~a.hasAlpha
Rule2(a) == ~a.soft.valid \/ ~a.solid.valid
Rule3(a) ==
    /\ RatGt(a.opaqueRatio, Pct(995, 1000))
    /\ RatGt(a.softWidthPct, Pct(96, 100))
    /\ RatGt(a.softHeightPct, Pct(96, 100))
    /\ RatGt(a.softCoverage, Pct(99, 100))

\* C2: the mode is Interior exactly when rule 1, rule 2 or rule 3 matches,
\* and Exterior in every other case.
C2_RulesInOrder ==
    pc = "classifiedPair" =>
        /\ classification.mode \in {"interior", "exterior"}
        /\ classification.mode = "interior" <=>
              (Rule1(analysis) \/ Rule2(analysis) \/ Rule3(analysis))

\* an analysis that passes rules 1 and 2 and is Interior by rule 3 alone
C2_Witness ==
    /\ pc = "classifiedPair"
    /\ ~Rule1(analysis) /\ ~Rule2(analysis) /\ Rule3(analysis)
    /\ classification.mode = "interior"

HintCondition(a) ==
    RatGt(a.opaqueRatio, Pct(85, 100)) /\ RatGt(a.softCoverage, Pct(85, 100))

\* C3: on an Exterior result interiorHint is true exactly when
\* opaqueRatio > 0.85 and softCoverage > 0.85, and an analysis that matches
\* none of the three Interior rules is Exterior whatever the hint is.
C3_HintAdvisory ==
    pc = "classifiedPair" =>
        /\ classification.mode = "exterior" =>
              (classification.interiorHint <=> HintCondition(analysis))
        /\ (~Rule1(analysis) /\ ~Rule2(analysis) /\ ~Rule3(analysis)) =>
              classification.mode = "exterior"

\* an Exterior result whose hint is true
C3_Witness ==
    /\ pc = "classifiedPair"
    /\ classification.mode = "exterior"
    /\ classification.interiorHint
    /\ HintCondition(analysis)

SameClassifierInputs(a, b) ==
    /\ a.hasAlpha = b.hasAlpha
    /\ a.soft.valid = b.soft.valid
    /\ a.solid.valid = b.solid.valid
    /\ a.opaqueRatio = b.opaqueRatio
    /\ a.softWidthPct = b.softWidthPct
    /\ a.softHeightPct = b.softHeightPct
    /\ a.softCoverage = b.softCoverage

\* C4: two analyses that agree on hasAlpha, soft.valid, solid.valid,
\* opaqueRatio, softWidthPct, softHeightPct and softCoverage get the same
\* mode and the same interiorHint, whatever their other fields.
C4_PureInSevenInputs ==
    (pc = "classifiedPair" /\ SameClassifierInputs(analysis, analysisB)) =>
        classification = classificationB

\* two analyses that agree on the seven inputs and differ in bottomTouchRatio,
\* solidCoverage, box coordinates and buffer width
C4_Witness ==
    /\ pc = "classifiedPair"
    /\ SameClassifierInputs(analysis, analysisB)
    /\ analysis.bottomTouchRatio # analysisB.bottomTouchRatio
    /\ analysis.solidCoverage # analysisB.solidCoverage
    /\ analysis.bufferWidth # analysisB.bufferWidth
    /\ analysis.solid # analysisB.solid
    /\ classification.mode = "exterior"


-----------------------------------------------------------------------------
(* Shadow Conditioner: adjustShadowIntensity and softenShadowEdges *)

IsShadowAlphaOrBody(alpha) == alpha > 0
\* if (alpha > 0 && alpha < 240)
IsShadowAlpha(alpha) == alpha > 0 /\ alpha < 240

\* Math.round(alpha * intensityFactor), intensityFactor = intensity / 100
ScaleAlpha(alpha, intensity) == Round(RatMul(RatInt(alpha), Rat(intensity, 100)))

\* the buffer is returned as it came when intensity >= 100; otherwise it is
\* decoded with an alpha channel, rewritten pixel by pixel and re-encoded
adjustShadowIntensity(buf, intensity) ==
    IF intensity >= 100 THEN buf
    ELSE LET data == EnsureAlpha(buf)
         IN  [buf EXCEPT
                !.hasAlpha = TRUE,
                !.px = [i \in 1..Len(data) |->
                          IF IsShadowAlpha(data[i].a)
                          THEN Pixel(data[i].c, ScaleAlpha(data[i].a, intensity))
                          ELSE data[i]]]

SHADOW_THRESHOLD == 200
CAR_THRESHOLD == 230
FADE_DISTANCE == 20
BLUR_RADIUS == 8
featherPx == 8

\* Step 1 for column x, scanning from row y upward: the first pixel with
\* 5 < alpha < SHADOW_THRESHOLD, unless a pixel with alpha >= CAR_THRESHOLD
\* comes first.  row = -1: shadowBottomRow[x] keeps its fill value.
RECURSIVE FindShadowEdge(_, _, _, _)
FindShadowEdge(data, width, x, y) ==
    IF y < 0 THEN [row |-> -1, alpha |-> 0]
    ELSE LET alpha == data[y * width + x + 1].a
         IN  IF alpha > 5 /\ alpha < SHADOW_THRESHOLD THEN [row |-> y, alpha |-> alpha]
             ELSE IF alpha >= CAR_THRESHOLD THEN [row |-> -1, alpha |-> 0]
             ELSE FindShadowEdge(data, width, x, y - 1)

\* Math.round(baseAlpha * fadeFactor * 0.7), fadeFactor = 1 - (dy / FADE_DISTANCE)^2
FadeAlpha(baseAlpha, dy) ==
    Round(RatMul(RatMul(RatInt(baseAlpha),
                        Rat(FADE_DISTANCE * FADE_DISTANCE - dy * dy,
                            FADE_DISTANCE * FADE_DISTANCE)),
                 Rat(7, 10)))

ShouldExtendAlways(existingAlpha, newAlpha) == TRUE
\* if (existingAlpha < newAlpha)
ShouldExtend(existingAlpha, newAlpha) == existingAlpha < newAlpha

\* the dy loop of step 2 for column x, from dy on
RECURSIVE FadeColumn(_, _, _, _, _, _, _, _)
FadeColumn(result, width, height, x, bottomY, base, baseAlpha, dy) ==
    IF dy > FADE_DISTANCE \/ bottomY + dy >= height THEN result
    ELSE LET newAlpha == FadeAlpha(baseAlpha, dy)
             target == (bottomY + dy) * width + x + 1
         IN  IF newAlpha < 2 THEN result
             ELSE FadeColumn(
                    IF ShouldExtend(result[target].a, newAlpha)
                    THEN [result EXCEPT ![target] = Pixel(base.c, newAlpha)]
                    ELSE result,
                    width, height, x, bottomY, base, baseAlpha, dy + 1)

\* the edge pixel is faded last: Math.round(baseAlpha * 0.6)
EdgeFade(baseAlpha) == Round(RatMul(RatInt(baseAlpha), Rat(6, 10)))

\* whether step 2 processes column x: an edge was found, at least two rows
\* lie below it, and its alpha is at least 10
ColumnExtended(data, width, height, x) ==
    LET e == FindShadowEdge(data, width, x, height - 1)
    IN  e.row >= 0 /\ e.row < height - 2 /\ e.alpha >= 10

\* one iteration of the step-2 column loop
ExtendColumn(result, data, width, height, x) ==
    LET e == FindShadowEdge(data, width, x, height - 1)
        baseIdx == e.row * width + x + 1
    IN  IF ~ColumnExtended(data, width, height, x) THEN result
        ELSE LET fadedCol == FadeColumn(result, width, height, x, e.row,
                                        data[baseIdx], e.alpha, 1)
             IN  [fadedCol EXCEPT ![baseIdx] = Pixel(fadedCol[baseIdx].c, EdgeFade(e.alpha))]

RECURSIVE ExtendShadows(_, _, _, _, _)
ExtendShadows(result, data, width, height, x) ==
    IF x >= width THEN result
    ELSE ExtendShadows(ExtendColumn(result, data, width, height, x),
                       data, width, height, x + 1)

\* sums of step 3 over dx = from..BLUR_RADIUS around pixel (x, y) of resultData
RECURSIVE BlurSums(_, _, _, _, _, _)
BlurSums(result, width, x, y, dx, acc) ==
    IF dx > BLUR_RADIUS THEN acc
    ELSE LET n == result[y * width + x + dx + 1]
         IN  BlurSums(result, width, x, y, dx + 1,
                      IF n.a > 0 /\ n.a < SHADOW_THRESHOLD
                      THEN [alphaSum |-> acc.alphaSum + n.a,
                            cSum |-> acc.cSum + n.c,
                            count |-> acc.count + 1]
                      ELSE acc)

HorizontalBlurOfEveryPixel(result, width, height) ==
    [i \in 1..Len(result) |->
        LET x == (i - 1) % width
            y == (i - 1) \div width
        IN  IF x < BLUR_RADIUS \/ x >= width - BLUR_RADIUS THEN result[i]
            ELSE LET sums == BlurSums(result, width, x, y, -BLUR_RADIUS,
                                      [alphaSum |-> 0, cSum |-> 0, count |-> 0])
                 IN  IF sums.count > 0
                     THEN Pixel(Round(Rat(sums.cSum, sums.count)),
                                Round(Rat(sums.alphaSum, sums.count)))
                     ELSE result[i]]

\* Step 3: blurredData, a copy of resultData in which every shadow pixel of
\* the columns BLUR_RADIUS .. width - BLUR_RADIUS - 1 holds the window average
HorizontalBlur(result, width, height) ==
    [i \in 1..Len(result) |->
        LET x == (i - 1) % width
            y == (i - 1) \div width
            alpha == result[i].a
        IN  IF x < BLUR_RADIUS \/ x >= width - BLUR_RADIUS THEN result[i]
            ELSE IF alpha = 0 \/ alpha >= SHADOW_THRESHOLD THEN result[i]
            ELSE LET sums == BlurSums(result, width, x, y, -BLUR_RADIUS,
                                      [alphaSum |-> 0, cSum |-> 0, count |-> 0])
                 IN  IF sums.count > 0
                     THEN Pixel(Round(Rat(sums.cSum, sums.count)),
                                Round(Rat(sums.alphaSum, sums.count)))
                     ELSE result[i]]

\* Step 4: alpha of every non-transparent pixel closer than featherPx to an
\* image edge is scaled by distFromEdge / featherPx
FeatherEdges(data, width, height) ==
    [i \in 1..Len(data) |->
        LET x == (i - 1) % width
            y == (i - 1) \div width
            alpha == data[i].a
            distFromEdge == Min2(Min2(x, width - 1 - x), Min2(y, height - 1 - y))
        IN  IF alpha = 0 THEN data[i]
            ELSE IF distFromEdge < featherPx
                 THEN Pixel(data[i].c, Round(Rat(alpha * distFromEdge, featherPx)))
                 ELSE data[i]]

-----------------------------------------------------------------------------
(* Specification SpecShadow: adjustShadowIntensity, then the four steps of  *)
(* softenShadowEdges, as compositeImage and padCutoutForShadows run them    *)

\* columns of the shadow rasters hold at most MaxRows pixels
MaxRows == 4

\* alpha bytes on both sides of the thresholds 5, 10, 200 and 230
ShadowLevels == {0, 5, 6, 10, 100, 199, 200, 230}

\* single columns of grey pixels (r = g = b = the row number)
ColumnRasters ==
    UNION {[width : {1}, height : {h}, hasAlpha : {TRUE}, decode : {"ok"},
            px : {[i \in 1..h |-> Pixel(i, f[i])] : f \in [1..h -> ShadowLevels]}]
           : h \in 1..MaxRows}

\* two columns of three rows
PairRasters ==
    [width : {2}, height : {3}, hasAlpha : {TRUE}, decode : {"ok"},
     px : {[i \in 1..6 |-> Pixel(i, f[i])] : f \in [1..6 -> {0, 180, 255}]}]

\* one pixel with any alpha byte
SinglePixels ==
    [width : {1}, height : {1}, hasAlpha : {TRUE}, decode : {"ok"},
     px : {<<Pixel(7, a)>> : a \in 0..255}]

\* the least width at which two pixels of a row have BLUR_RADIUS neighbours
\* on both sides
StripWidth == 2 * BLUR_RADIUS + 2

\* single rows of StripWidth pixels (r = g = b = the column number + 1): a
\* shadow pixel at the left end, any of four levels in the four middle
\* columns, nothing elsewhere
StripRasters ==
    {[width |-> StripWidth, height |-> 1, hasAlpha |-> TRUE, decode |-> "ok",
      px |-> [i \in 1..StripWidth |->
                IF i = 1 THEN Pixel(i, 50)
                ELSE IF i \in BLUR_RADIUS..(BLUR_RADIUS + 3)
                     THEN Pixel(i, f[i])
                     ELSE Pixel(i, 0)]] :
        f \in [BLUR_RADIUS..(BLUR_RADIUS + 3) -> {0, 100, 199, 255}]}

InitShadow ==
    /\ BatchIdle
    /\ pc = "adjust"
    /\ \/ /\ cutout \in ColumnRasters \cup PairRasters \cup StripRasters
          /\ shadowIntensity \in {50, 100}
       \/ cutout \in SinglePixels /\ shadowIntensity \in 0..100
    /\ analysis = None
    /\ classification = None
    /\ analysisB = None
    /\ classificationB = None
    /\ adjusted = None
    /\ faded = None
    /\ blurred = None
    /\ softened = None
    /\ padded = None
    /\ PlanIdle

\* const shadowAdjustedCutout = await adjustShadowIntensity(cutoutBuffer, shadowIntensity)
AdjustShadowIntensity ==
    /\ pc = "adjust"
    /\ adjusted' = adjustShadowIntensity(cutout, shadowIntensity)
    /\ pc' = "extend"
    /\ UNCHANGED <<batchVars, analysisVars, planVars, ioVars, padded, shadowIntensity, faded, blurred, softened>>

\* softenShadowEdges(shadowAdjustedCutout), steps 1 and 2
SoftenExtend ==
    /\ pc = "extend"
    /\ LET data == EnsureAlpha(adjusted)
       IN  faded' = ExtendShadows(data, data, adjusted.width, adjusted.height, 0)
    /\ pc' = "blur"
    /\ UNCHANGED <<batchVars, analysisVars, planVars, ioVars, padded, shadowIntensity, adjusted, blurred, softened>>

\* step 3
SoftenBlur ==
    /\ pc = "blur"
    /\ blurred' = HorizontalBlur(faded, adjusted.width, adjusted.height)
    /\ pc' = "feather"
    /\ UNCHANGED <<batchVars, analysisVars, planVars, ioVars, padded, shadowIntensity, adjusted, faded, softened>>

\* step 4 and the PNG encode of the result
SoftenFeather ==
    /\ pc = "feather"
    /\ softened' = [adjusted EXCEPT !.hasAlpha = TRUE,
                                    !.px = FeatherEdges(blurred, adjusted.width, adjusted.height)]
    /\ pc' = "softened"
    /\ UNCHANGED <<batchVars, analysisVars, planVars, ioVars, padded, shadowIntensity, adjusted, faded, blurred>>

NextShadow == AdjustShadowIntensity \/ SoftenExtend \/ SoftenBlur \/ SoftenFeather

SpecShadow == InitShadow /\ [][NextShadow]_vars

Extended == pc \in {"blur", "feather", "softened"}

\* pixel (x, y) of a row-major pixel sequence
At(px, width, x, y) == px[y * width + x + 1]

EdgeOf(x) == FindShadowEdge(adjusted.px, adjusted.width, x, adjusted.height - 1)

\* C8 as stated: after the fade extension every pixel at or below a column's
\* detected shadow edge has an alpha at least as large as before.
C8_AtAndBelowEdgeNeverWeaker ==
    Extended =>
        \A x \in 0..(adjusted.width - 1) :
            EdgeOf(x).row >= 0 =>
                \A y \in EdgeOf(x).row..(adjusted.height - 1) :
                    At(faded, adjusted.width, x, y).a >= At(adjusted.px, adjusted.width, x, y).a

\* C8 (amended): after the fade extension every pixel strictly below a
\* column's detected shadow edge has an alpha at least as large as before,
\* and is rewritten only to a larger alpha; the edge pixel of a column the
\* step processes is set to round(0.6 x its alpha).
C8_BelowEdgeNeverWeaker ==
    Extended =>
        \A x \in 0..(adjusted.width - 1) :
            LET e == EdgeOf(x)
            IN  /\ e.row >= 0 =>
                     \A y \in (e.row + 1)..(adjusted.height - 1) :
                        \/ At(faded, adjusted.width, x, y) = At(adjusted.px, adjusted.width, x, y)
                        \/ At(faded, adjusted.width, x, y).a > At(adjusted.px, adjusted.width, x, y).a
                /\ ColumnExtended(adjusted.px, adjusted.width, adjusted.height, x) =>
                     At(faded, adjusted.width, x, e.row).a = Round(Rat(6 * e.alpha, 10))

\* a processed column in which one pixel below the edge was extended and
\* another, stronger than its fade value, was kept
C8_Witness ==
    /\ Extended
    /\ \E x \in 0..(adjusted.width - 1) :
          /\ ColumnExtended(adjusted.px, adjusted.width, adjusted.height, x)
          /\ \E y1, y2 \in (EdgeOf(x).row + 1)..(adjusted.height - 1) :
                /\ At(faded, adjusted.width, x, y1).a > At(adjusted.px, adjusted.width, x, y1).a
                /\ At(adjusted.px, adjusted.width, x, y2).a >= SHADOW_THRESHOLD
                /\ At(faded, adjusted.width, x, y2) = At(adjusted.px, adjusted.width, x, y2)

Adjusted == pc \in {"extend", "blur", "feather", "softened"}

-----------------------------------------------------------------------------
(* Background removal: the padding sent to the service and the crop of its
   answer.  A cutout is described here by its regions instead of its pixels:
   solidRegion is the box of fully opaque pixels (alpha 255), softRegion the
   box of pixels that are at least half transparent shadow (alpha 120 outside
   solidRegion), every other pixel has alpha 0.  None is an empty region. *)

Box(minX, maxX, minY, maxY) ==
    [minX |-> minX, maxX |-> maxX, minY |-> minY, maxY |-> maxY]

ShiftBox(b, dx, dy) ==
    IF b = None THEN None
    ELSE Box(b.minX + dx, b.maxX + dx, b.minY + dy, b.maxY + dy)

\* the part of region b inside a width x height frame
ClipBox(b, width, height) ==
    IF b = None THEN None
    ELSE LET c == Box(Max2(0, b.minX), Min2(width - 1, b.maxX),
                      Max2(0, b.minY), Min2(height - 1, b.maxY))
         IN  IF c.minX > c.maxX \/ c.minY > c.maxY THEN None ELSE c

BoxArea(b) ==
    IF b = None THEN 0 ELSE (b.maxX - b.minX + 1) * (b.maxY - b.minY + 1)

\* padImageForRemoveBg: 2% top, left and right, 8% bottom
padImageForRemoveBg(meta) ==
    LET width == OrDefault(meta.width, 1000)
        height == OrDefault(meta.height, 1000)
    IN  [top |-> Round(Rat(2 * height, 100)),
         bottom |-> Round(Rat(8 * height, 100)),
         left |-> Round(Rat(2 * width, 100)),
         right |-> Round(Rat(2 * width, 100)),
         originalWidth |-> width,
         originalHeight |-> height]

\* the answer of the removal service for the padded upload: a cutout of the
\* padded size (size=full), the subject where it was in the upload, its added
\* shadow (add_shadow=true) free to fall on the padding
ServiceCutout(subj, padding) ==
    LET width == padding.originalWidth + padding.left + padding.right
        height == padding.originalHeight + padding.top + padding.bottom
    IN  [width |-> width,
         height |-> height,
         hasAlpha |-> subj.hasAlpha,
         decode |-> "ok",
         solidRegion |-> ClipBox(ShiftBox(subj.body, padding.left, padding.top), width, height),
         softRegion |-> ClipBox(ShiftBox(subj.shadow, padding.left, padding.top), width, height)]

\* cropRemoveBgOutput: keep 10% of the top and side padding, 50% of the bottom
cropRemoveBgOutput(raw, padding) ==
    LET width == OrDefault(raw.width, 1000)
        height == OrDefault(raw.height, 1000)
        keepTop == Round(Rat(padding.top, 10))
        keepBottom == Round(Rat(padding.bottom, 2))
        keepLeft == Round(Rat(padding.left, 10))
        keepRight == Round(Rat(padding.right, 10))
        cropLeft == padding.left - keepLeft
        cropTop == padding.top - keepTop
        cropWidth == width - (padding.left - keepLeft) - (padding.right - keepRight)
        cropHeight == height - (padding.top - keepTop) - (padding.bottom - keepBottom)
        left == Max2(0, cropLeft)
        top == Max2(0, cropTop)
        outWidth == Min2(cropWidth, width - cropLeft)
        outHeight == Min2(cropHeight, height - cropTop)
    IN  [width |-> outWidth,
         height |-> outHeight,
         hasAlpha |-> raw.hasAlpha,
         decode |-> raw.decode,
         solidRegion |-> ClipBox(ShiftBox(raw.solidRegion, -left, -top), outWidth, outHeight),
         softRegion |-> ClipBox(ShiftBox(raw.softRegion, -left, -top), outWidth, outHeight)]

\* removeBackground for a request the service answers
removeBackground(meta, subj) ==
    LET padding == padImageForRemoveBg(meta)
    IN  cropRemoveBgOutput(ServiceCutout(subj, padding), padding)

\* the try block of analyzeSubjectBounds on a cutout given by its regions:
\* the pixel loops visit alpha 255 in solidRegion, 120 in the rest of
\* softRegion and 0 elsewhere, or 255 everywhere after ensureAlpha() when the
\* cutout has no alpha channel
AnalyzeRegions(buf) ==
    LET width == buf.width
        height == buf.height
        totalPixels == width * height
        frame == Box(0, width - 1, 0, height - 1)
        solidRegion == IF buf.hasAlpha THEN buf.solidRegion ELSE frame
        softRegion == IF buf.hasAlpha THEN buf.softRegion ELSE frame
        Scanned(b) ==
            IF b = None THEN EmptyBounds(width, height)
            ELSE [minX |-> b.minX, maxX |-> b.maxX, minY |-> b.minY, maxY |-> b.maxY,
                  valid |-> TRUE]
        soft == finalizeBounds(Scanned(softRegion), width, height)
        solid == finalizeBounds(Scanned(solidRegion), width, height)
        softWidth == soft.maxX - soft.minX + 1
        softHeight == soft.maxY - soft.minY + 1
        bottomTouchCount ==
            IF softRegion # None /\ softRegion.maxY >= BottomBandStart(height)
            THEN softRegion.maxX - softRegion.minX + 1
            ELSE 0
    IN  [bufferWidth |-> width,
         bufferHeight |-> height,
         hasAlpha |-> buf.hasAlpha,
         soft |-> soft,
         solid |-> solid,
         softCoverage |-> Rat(BoxArea(softRegion), totalPixels),
         solidCoverage |-> Rat(BoxArea(solidRegion), totalPixels),
         softWidthPct |-> Rat(softWidth, width),
         softHeightPct |-> Rat(softHeight, height),
         bottomTouchRatio |-> IF width > 0 THEN Rat(bottomTouchCount, width) ELSE RatInt(0),
         opaqueRatio |-> Rat(BoxArea(solidRegion), totalPixels)]

-----------------------------------------------------------------------------
(* Scale and placement solver: compositeImage *)

EXPORT_WIDTH == 1920
TARGET_WIDTH_PCT == Rat(82, 100)
FLOOR_Y_PCT == Rat(84, 100)

\* function clamp(value, min, max)
clamp(value, min, max) == RatMax(min, RatMin(value, max))

\* padCutoutForShadows: 3% top, left and right, 10% bottom
padCutoutForShadows(meta) ==
    LET width == OrDefault(meta.width, 1000)
        height == OrDefault(meta.height, 1000)
    IN  [top |-> Round(Rat(3 * height, 100)),
         bottom |-> Round(Rat(10 * height, 100)),
         left |-> Round(Rat(3 * width, 100)),
         right |-> Round(Rat(3 * width, 100))]

\* a box of the analysis in the coordinates of the padded buffer
PaddedBounds(b, padding) ==
    [minX |-> b.minX + padding.left, maxX |-> b.maxX + padding.left,
     minY |-> b.minY + padding.top, maxY |-> b.maxY + padding.top]

\* const baseCanvasWidth = isReprocessed ? ... : Math.max(EXPORT_WIDTH, ...)
CanvasWidth(solidWidth, targetPct, isReprocessed) ==
    IF isReprocessed
    THEN Round(RatDiv(RatInt(solidWidth), targetPct))
    ELSE Max2(EXPORT_WIDTH, Round(RatDiv(RatInt(solidWidth), targetPct)))

CanvasHeightTruncated(canvasWidth) == RatFloor(RatMul(RatInt(canvasWidth), Rat(9, 16)))
\* const baseCanvasHeight = Math.round(baseCanvasWidth * (9 / 16))
CanvasHeight(canvasWidth) == Round(RatMul(RatInt(canvasWidth), Rat(9, 16)))

MinPctDeclared(targetPct) == Rat(72, 100)
\* const minPct = Math.max(0.50, targetPct - 0.12)
MinPct(targetPct) == RatMax(Rat(50, 100), RatSub(targetPct, Rat(12, 100)))

\* const maxPct = isReprocessed ? 0.98 : Math.min(0.95, targetPct + 0.08)
MaxPct(targetPct, isReprocessed) ==
    IF isReprocessed THEN Rat(98, 100)
    ELSE RatMin(Rat(95, 100), RatAdd(targetPct, Rat(8, 100)))

\* what compositeImage computes before it branches on the mode
PlanSetup(a, carScale, isReprocessed) ==
    LET padding == padCutoutForShadows([width |-> a.bufferWidth, height |-> a.bufferHeight])
        paddedWidth == a.bufferWidth + padding.left + padding.right
        paddedHeight == a.bufferHeight + padding.top + padding.bottom
        soft == PaddedBounds(a.soft, padding)
        solid == PaddedBounds(a.solid, padding)
        solidWidth == Max2(1, solid.maxX - solid.minX + 1)
        solidHeight == Max2(1, solid.maxY - solid.minY + 1)
        softWidth == Max2(1, soft.maxX - soft.minX + 1)
        softHeight == Max2(1, soft.maxY - soft.minY + 1)
        targetPct == carScale
        canvasWidth == CanvasWidth(solidWidth, targetPct, isReprocessed)
    IN  [padding |-> padding,
         paddedWidth |-> paddedWidth,
         paddedHeight |-> paddedHeight,
         soft |-> soft,
         solid |-> solid,
         solidWidth |-> solidWidth,
         solidHeight |-> solidHeight,
         solidCenterX |-> RatAdd(RatInt(solid.minX), Rat(solidWidth, 2)),
         solidBottom |-> solid.maxY,
         softWidth |-> softWidth,
         softHeight |-> softHeight,
         softCenterX |-> RatAdd(RatInt(soft.minX), Rat(softWidth, 2)),
         softCenterY |-> RatAdd(RatInt(soft.minY), Rat(softHeight, 2)),
         targetPct |-> targetPct,
         minPct |-> MinPct(targetPct),
         maxPct |-> MaxPct(targetPct, isReprocessed),
         isReprocessed |-> isReprocessed,
         canvasWidth |-> canvasWidth,
         canvasHeight |-> CanvasHeight(canvasWidth)]

WidthRuleScaleOff(widthPct, minPct, maxPct) == RatInt(1)
\* if (widthPct < minPct) ... else if (widthPct > maxPct) ..., scale = 1 otherwise
WidthRuleScale(widthPct, minPct, maxPct) ==
    IF RatLt(widthPct, minPct) THEN RatDiv(minPct, widthPct)
    ELSE IF RatGt(widthPct, maxPct) THEN RatDiv(maxPct, widthPct)
    ELSE RatInt(1)

ExteriorMaxScaleToFitWidthOnly(s, floorY) == Rat(s.canvasWidth, s.paddedWidth)
\* Math.min(canvasWidth / paddedWidth, canvasHeight / paddedHeight,
\* floorY / solidBottom); floorY / 0 is Infinity and never the minimum
ExteriorMaxScaleToFit(s, floorY) ==
    LET fit == RatMin(Rat(s.canvasWidth, s.paddedWidth), Rat(s.canvasHeight, s.paddedHeight))
    IN  IF s.solidBottom = 0 THEN fit ELSE RatMin(fit, Rat(floorY, s.solidBottom))

\* let adjustedCarLeft = carLeft; if (scaledSolidLeft < minEdgeMargin) ...
\* else if (scaledSolidRight > canvasWidth - minEdgeMargin) ...
AdjustCarLeft(carLeft, scaledSolidLeft, scaledSolidRight, minEdgeMargin, canvasWidth) ==
    IF RatLt(scaledSolidLeft, RatInt(minEdgeMargin))
    THEN RatAdd(RatInt(carLeft), RatSub(RatInt(minEdgeMargin), scaledSolidLeft))
    ELSE IF RatGt(scaledSolidRight, RatInt(canvasWidth - minEdgeMargin))
    THEN RatSub(RatInt(carLeft), RatSub(scaledSolidRight, RatInt(canvasWidth - minEdgeMargin)))
    ELSE RatInt(carLeft)

ClampOffsetSkipped(offset, canvasSize, scaledSize) == offset
\* Math.max(0, Math.min(offset, canvasSize - scaledSize))
ClampOffset(offset, canvasSize, scaledSize) ==
    RatMax(RatInt(0), RatMin(offset, RatInt(canvasSize - scaledSize)))

\* the exterior branch of compositeImage up to clampedLeft and clampedTop
ExteriorPlan(s) ==
    LET widthPct == Rat(s.solidWidth, s.canvasWidth)
        ruleScale == WidthRuleScale(widthPct, s.minPct, s.maxPct)
        floorY == Round(RatMul(RatInt(s.canvasHeight), FLOOR_Y_PCT))
        maxScaleToFit == ExteriorMaxScaleToFit(s, floorY)
        scale == RatMin(ruleScale, maxScaleToFit)
        scaledWidth == Round(RatMul(RatInt(s.paddedWidth), scale))
        scaledHeight == Round(RatMul(RatInt(s.paddedHeight), scale))
        scaledSolidBottom == RatMul(RatInt(s.solidBottom), scale)
        scaledSolidCenterX == RatMul(s.solidCenterX, scale)
        canvasCenterX == Rat(s.canvasWidth, 2)
        carLeft == Round(RatSub(canvasCenterX, scaledSolidCenterX))
        carTop == Round(RatSub(RatInt(floorY), scaledSolidBottom))
        minEdgeMargin == Round(Rat(5 * s.canvasWidth, 100))
        scaledSolidLeft == RatAdd(RatInt(carLeft), RatMul(RatInt(s.solid.minX), scale))
        scaledSolidRight == RatAdd(RatInt(carLeft), RatMul(RatInt(s.solid.maxX), scale))
        adjustedCarLeft ==
            AdjustCarLeft(carLeft, scaledSolidLeft, scaledSolidRight, minEdgeMargin, s.canvasWidth)
    IN  [mode |-> "exterior",
         setup |-> s,
         canvasWidth |-> s.canvasWidth,
         canvasHeight |-> s.canvasHeight,
         ruleScale |-> ruleScale,
         floorY |-> floorY,
         maxScaleToFit |-> maxScaleToFit,
         scale |-> scale,
         widthPct |-> RatDiv(RatMul(RatInt(s.solidWidth), scale), RatInt(s.canvasWidth)),
         scaledWidth |-> scaledWidth,
         scaledHeight |-> scaledHeight,
         carLeft |-> carLeft,
         carTop |-> carTop,
         minEdgeMargin |-> minEdgeMargin,
         adjustedCarLeft |-> adjustedCarLeft,
         clampedLeft |-> ClampOffset(adjustedCarLeft, s.canvasWidth, scaledWidth),
         clampedTop |-> ClampOffset(RatInt(carTop), s.canvasHeight, scaledHeight)[1]]

\* the interior branch of compositeImage up to clampedLeft and clampedTop
InteriorPlan(s) ==
    LET availableWidth == Rat(9 * s.canvasWidth, 10)
        availableHeight == Rat(9 * s.canvasHeight, 10)
        scaleToFit == RatMin(RatDiv(availableWidth, RatInt(s.softWidth)),
                             RatDiv(availableHeight, RatInt(s.softHeight)))
        maxScaleToFit == RatMin(Rat(s.canvasWidth, s.paddedWidth),
                                Rat(s.canvasHeight, s.paddedHeight))
        scale == clamp(RatMin(scaleToFit, maxScaleToFit), Rat(1, 10), RatInt(2))
        scaledWidth == Round(RatMul(RatInt(s.paddedWidth), scale))
        scaledHeight == Round(RatMul(RatInt(s.paddedHeight), scale))
        carLeft == Round(RatSub(Rat(s.canvasWidth, 2), RatMul(s.softCenterX, scale)))
        carTop == Round(RatSub(Rat(s.canvasHeight, 2), RatMul(s.softCenterY, scale)))
    IN  [mode |-> "interior",
         setup |-> s,
         canvasWidth |-> s.canvasWidth,
         canvasHeight |-> s.canvasHeight,
         scaleToFit |-> scaleToFit,
         maxScaleToFit |-> maxScaleToFit,
         scale |-> scale,
         widthPct |-> RatDiv(RatMul(RatInt(s.softWidth), scale), RatInt(s.canvasWidth)),
         scaledWidth |-> scaledWidth,
         scaledHeight |-> scaledHeight,
         carLeft |-> carLeft,
         carTop |-> carTop,
         clampedLeft |-> ClampOffset(RatInt(carLeft), s.canvasWidth, scaledWidth),
         clampedTop |-> ClampOffset(RatInt(carTop), s.canvasHeight, scaledHeight)[1]]

-----------------------------------------------------------------------------
(* The request handler around the solver: POST *)

\* if (profile?.car_scale) carScalePercent = profile.car_scale / 100
CarScalePercent(carScale) ==
    IF carScale # 0 THEN Rat(carScale, 100) ELSE TARGET_WIDTH_PCT

IsSixteenByNine(originalWidth, originalHeight) == originalWidth * 9 = originalHeight * 16
\* const is16by9 = originalWidth === 1920 && originalHeight === 1080
IsExportSized(originalWidth, originalHeight) ==
    originalWidth = 1920 /\ originalHeight = 1080

\* effectiveCarScale = Math.min(0.95, Math.max(0.60, carPctOfOriginal))
PreservedCarScale(cutoutAnalysis, originalWidth) ==
    LET carSolidWidth == Max2(1, cutoutAnalysis.solid.maxX - cutoutAnalysis.solid.minX + 1)
        carPctOfOriginal == Rat(carSolidWidth, originalWidth)
    IN  RatMin(Rat(95, 100), RatMax(Rat(60, 100), carPctOfOriginal))

\* new Error(message): the message, and the status and body of the service's
\* answer when the message quotes them
Error(message, status, errorText) ==
    [message |-> message, status |-> status, errorText |-> errorText]

\* response.ok
ResponseOk(answer) == answer.status \in 200..299

removeBackgroundErrorOnStatusOnly(answer) ==
    IF ~ResponseOk(answer)
    THEN Error("Remove.bg API error", answer.status, answer.body)
    ELSE None
\* what removeBackground throws after the service has answered: None when it
\* returns the cropped cutout
removeBackgroundError(answer) ==
    IF ~ResponseOk(answer)
    THEN IF answer.body = "invalid_file_type"
         THEN Error("Invalid file type. Please upload a JPG, PNG, WebP, AVIF, or HEIC image.",
                    None, None)
         ELSE Error("Remove.bg API error", answer.status, answer.body)
    ELSE IF answer.body # "cutout"
         THEN Error("Input buffer contains unsupported image format", None, None)
         ELSE None

\* catch (error): { error: error.message } with status 500
ErrorResponse(error) == [status |-> 500, error |-> error.message, detail |-> error]

\* NextResponse.json({ id: outputId, success: true, mode, interiorHint })
SuccessResponse(mode) == [status |-> 200, success |-> TRUE, mode |-> mode]

\* the download of logos/<user id>.png: null when there is no such object or
\* the download fails
DownloadLogo(object) ==
    IF object = None \/ object.downloadError THEN None ELSE object

DebugOverlayWithFlagOnly(e) == e.PROCESS_DEBUG_OVERLAY = "1"
\* const DEBUG_OVERLAY = process.env.NODE_ENV !== 'production' &&
\*                       process.env.PROCESS_DEBUG_OVERLAY === '1'
DEBUG_OVERLAY(e) == e.NODE_ENV # "production" /\ e.PROCESS_DEBUG_OVERLAY = "1"

LOGO_WIDTH_PERCENT == Rat(10, 100)

\* createRoomBackground: which picture becomes the background of the exterior
\* canvas; "throws" when sharp cannot decode the chosen buffer
RoomBackground(bg) ==
    LET bgBuffer == IF bg.user # "none" THEN [kind |-> "user", content |-> bg.user]
                    ELSE IF bg.template # "missing"
                         THEN [kind |-> "template", content |-> bg.template]
                         ELSE None
    IN  IF bgBuffer = None THEN "fallback"
        ELSE IF bgBuffer.content = "image" THEN bgBuffer.kind
        ELSE "throws"

\* the logo layer compositeImage pushes: None when there is no logo buffer or
\* the try block around metadata() and resize() throws
LogoLayer(buffer, canvasWidth, logoScale) ==
    IF buffer = None THEN None
    ELSE LET logoTargetWidth == Round(RatMul(RatInt(canvasWidth), logoScale))
             logoPadding == Round(Rat(canvasWidth * 12, 1000))
         IN  IF ~buffer.decodes THEN None
             ELSE LET logoScaleRatio == Rat(logoTargetWidth, OrDefault(buffer.width, 500))
                      logoHeight == Round(RatMul(RatInt(OrDefault(buffer.height, 200)),
                                                 logoScaleRatio))
                  IN  IF logoTargetWidth < 1 \/ logoHeight < 1 THEN None
                      ELSE [width |-> logoTargetWidth,
                            height |-> logoHeight,
                            left |-> canvasWidth - logoTargetWidth - logoPadding,
                            top |-> logoPadding]

\* sharp's resize takes a positive integer width and height
ResizeThrows(p) == p.scale # RatInt(1) /\ (p.scaledWidth < 1 \/ p.scaledHeight < 1)

\* sharp's composite takes integer offsets and layers no larger than the
\* image they are laid on
LayerThrows(p, layer) ==
    layer.width > p.canvasWidth \/ layer.height > p.canvasHeight

CutoutLayer(p) ==
    [width |-> IF p.scale = RatInt(1) THEN p.setup.paddedWidth ELSE p.scaledWidth,
     height |-> IF p.scale = RatInt(1) THEN p.setup.paddedHeight ELSE p.scaledHeight,
     left |-> p.clampedLeft,
     top |-> p.clampedTop]

\* the cutout alone cannot be laid on the canvas
CutoutThrows(p) ==
    \/ ResizeThrows(p)
    \/ ~IsInteger(p.clampedLeft)
    \/ LayerThrows(p, CutoutLayer(p))

\* compositeImage from createRoomBackground to the export rejects
CompositeThrows(p, bg, buffer) ==
    LET logoLayer == LogoLayer(buffer, p.canvasWidth, LOGO_WIDTH_PERCENT)
    IN  \/ p.mode = "exterior" /\ RoomBackground(bg) = "throws"
        \/ CutoutThrows(p)
        \/ logoLayer # None /\ LayerThrows(p, logoLayer)

\* the layers of the picture compositeImage returns
Composited(p, bg, buffer, e) ==
    [mode |-> p.mode,
     background |-> IF p.mode = "exterior" THEN RoomBackground(bg) ELSE "interiorFill",
     logo |-> LogoLayer(buffer, p.canvasWidth, LOGO_WIDTH_PERCENT) # None,
     overlay |-> IF ~DEBUG_OVERLAY(e) THEN {}
                 ELSE IF p.mode = "exterior"
                      THEN {"floorLine", "softRect", "solidRect"}
                      ELSE {"softRect"}]

-----------------------------------------------------------------------------
(* Specification SpecPlan: one request from the upload's metadata to the     *)
(* canvas size, scale and offsets compositeImage places the cutout with      *)

Grid == 4

Uploads ==
    {[width |-> 1920, height |-> 1080], [width |-> 1600, height |-> 900],
     [width |-> 1600, height |-> 1200], [width |-> 4032, height |-> 3024],
     [width |-> 640, height |-> 480], [width |-> 2400, height |-> 1000],
     [width |-> 1280, height |-> 720]}

\* profile.car_scale: not set, or a percentage of the settings page
ProfileCarScales == {0, 60, 75, 95}

\* the box between the grid lines a, b (of Grid across) and c, d (of Grid down)
GridBox(meta, a, b, c, d) ==
    Box((meta.width * a) \div Grid, (meta.width * b) \div Grid - 1,
        (meta.height * c) \div Grid, (meta.height * d) \div Grid - 1)

SubjectBoxes(meta) ==
    {box \in {GridBox(meta, a, b, c, d) : a, b, c, d \in 0..Grid} :
        box.minX <= box.maxX /\ box.minY <= box.maxY}

\* the ground shadow the service adds beside and beneath a body
GroundShadow(meta, body) ==
    Box(body.minX - meta.width \div 50, body.maxX + meta.width \div 50,
        body.minY, body.maxY + meta.height \div 25)

\* what the photo shows, in the coordinates of the upload: a vehicle body
\* with or without a ground shadow, something the service leaves half
\* transparent, nothing at all, or a picture it returns without alpha channel
Subjects(meta) ==
    {[hasAlpha |-> TRUE, body |-> b, shadow |-> b] : b \in SubjectBoxes(meta)}
    \cup {[hasAlpha |-> TRUE, body |-> b, shadow |-> GroundShadow(meta, b)] :
            b \in SubjectBoxes(meta)}
    \cup {[hasAlpha |-> TRUE, body |-> None, shadow |-> b] : b \in SubjectBoxes(meta)}
    \cup {[hasAlpha |-> TRUE, body |-> None, shadow |-> None],
          [hasAlpha |-> FALSE, body |-> None, shadow |-> None]}

InitPlan ==
    /\ BatchIdle
    /\ pc = "detect"
    /\ upload \in Uploads
    /\ profileCarScale \in ProfileCarScales
    /\ subject \in Subjects(upload)
    /\ is16by9 = None
    /\ effectiveCarScale = None
    /\ plan = None
    /\ cutout = None
    /\ analysis = None
    /\ classification = None
    /\ analysisB = None
    /\ classificationB = None
    /\ ShadowIdle
    /\ env = [NODE_ENV |-> "production", PROCESS_DEBUG_OVERLAY |-> ""]
    /\ service = [status |-> 200, body |-> "cutout"]
    /\ logo = None
    /\ background = [user |-> "none", template |-> "image"]
    /\ RequestStart

\* const is16by9 = originalWidth === 1920 && originalHeight === 1080, and the
\* upload of the original to the bucket originals
DetectReprocessed ==
    /\ pc = "detect"
    /\ is16by9' = IsExportSized(OrDefault(upload.width, 1920), OrDefault(upload.height, 1080))
    /\ stored' = stored \cup {"originals"}
    /\ pc' = "removeBg"
    /\ UNCHANGED <<batchVars, analysisVars, shadowVars, upload, profileCarScale, subject,
                   effectiveCarScale, plan, env, service, logo, background, serviceCalls,
                   logoBuffer, output, response>>

\* const cutoutBuffer = await removeBackground(originalBuffer), and the
\* download of the logo that follows it
RemoveBackground ==
    /\ pc = "removeBg"
    /\ serviceCalls' = serviceCalls + 1
    /\ removeBackgroundError(service) = None
    /\ cutout' = removeBackground(upload, subject)
    /\ logoBuffer' = DownloadLogo(logo)
    /\ pc' = "carScale"
    /\ UNCHANGED <<batchVars, analysis, classification, analysisB, classificationB, shadowVars, planVars,
                   env, service, logo, background, output, stored, response>>

\* removeBackground throws: POST's catch answers with the error's message
RemoveBackgroundFails ==
    /\ pc = "removeBg"
    /\ serviceCalls' = serviceCalls + 1
    /\ removeBackgroundError(service) # None
    /\ response' = ErrorResponse(removeBackgroundError(service))
    /\ pc' = "responded"
    /\ UNCHANGED <<batchVars, analysisVars, shadowVars, planVars, env, service, logo, background,
                   logoBuffer, output, stored>>

\* let effectiveCarScale = carScalePercent; if (is16by9) { ... }
EffectiveCarScale ==
    /\ pc = "carScale"
    /\ effectiveCarScale' =
          IF is16by9
          THEN PreservedCarScale(AnalyzeRegions(cutout), OrDefault(upload.width, 1920))
          ELSE CarScalePercent(profileCarScale)
    /\ pc' = "composite"
    /\ UNCHANGED <<batchVars, analysisVars, shadowVars, upload, profileCarScale, subject, is16by9, plan,
                   ioVars>>

\* compositeImage(cutoutBuffer, ..., effectiveCarScale, shadowIntensity, is16by9)
\* when classifyPhotoMode answers exterior
CompositeExterior ==
    /\ pc = "composite"
    /\ LET a == AnalyzeRegions(cutout)
           c == classifyPhotoMode(a)
       IN  /\ c.mode = "exterior"
           /\ analysis' = a
           /\ classification' = c
           /\ plan' = ExteriorPlan(PlanSetup(a, effectiveCarScale, is16by9))
    /\ pc' = "planned"
    /\ UNCHANGED <<batchVars, cutout, analysisB, classificationB, shadowVars, upload, profileCarScale,
                   subject, is16by9, effectiveCarScale, ioVars>>

\* compositeImage when classifyPhotoMode answers interior
CompositeInterior ==
    /\ pc = "composite"
    /\ LET a == AnalyzeRegions(cutout)
           c == classifyPhotoMode(a)
       IN  /\ c.mode = "interior"
           /\ analysis' = a
           /\ classification' = c
           /\ plan' = InteriorPlan(PlanSetup(a, effectiveCarScale, is16by9))
    /\ pc' = "planned"
    /\ UNCHANGED <<batchVars, cutout, analysisB, classificationB, shadowVars, upload, profileCarScale,
                   subject, is16by9, effectiveCarScale, ioVars>>

NextPlan ==
    \/ DetectReprocessed
    \/ RemoveBackground
    \/ EffectiveCarScale
    \/ CompositeExterior
    \/ CompositeInterior

SpecPlan == InitPlan /\ [][NextPlan]_vars

Planned == pc \in {"planned", "composited", "responded"} /\ plan # None

\* C5: in every plan compositeImage computes, exterior or interior,
\* reprocessed or not, canvasHeight is round(canvasWidth x 9/16), the integer
\* h with 9 x canvasWidth - 8 < 16 x h <= 9 x canvasWidth + 8.
C5_CanvasHeightIsNineSixteenths ==
    Planned =>
        /\ plan.canvasHeight = Round(Rat(9 * plan.canvasWidth, 16))
        /\ 9 * plan.canvasWidth - 8 < 16 * plan.canvasHeight
        /\ 16 * plan.canvasHeight <= 9 * plan.canvasWidth + 8

\* a plan whose canvas is wider than the export width and whose canvas width
\* times 9/16 lies half way between two integers: 3688 x 9/16 = 2074.5
C5_Witness ==
    /\ Planned
    /\ plan.canvasWidth = 3688
    /\ plan.canvasHeight = 2075

\* final top + solidBottom x scale of an exterior plan
FinalSolidBottom == RatAdd(RatInt(plan.clampedTop), RatMul(RatInt(plan.setup.solidBottom), plan.scale))

\* C6: in every exterior plan whose scale the max-scale-to-fit constraint did
\* not reduce, the scaled solid-box bottom, final top + solidBottom x scale
\* after the last clamp of top, is within 1px of round(canvasHeight x 0.84).
C6_SolidBottomOnFloorLine ==
    (Planned /\ plan.mode = "exterior" /\ RatLe(plan.ruleScale, plan.maxScaleToFit)) =>
        /\ RatLe(RatSub(FinalSolidBottom, RatInt(plan.floorY)), RatInt(1))
        /\ RatLe(RatSub(RatInt(plan.floorY), FinalSolidBottom), RatInt(1))

\* the edges of the scaled solid box at the final left offset
FinalSolidLeft == RatAdd(plan.clampedLeft, RatMul(RatInt(plan.setup.solid.minX), plan.scale))
FinalSolidRight == RatAdd(plan.clampedLeft, RatMul(RatInt(plan.setup.solid.maxX), plan.scale))

\* C7: in every exterior plan whose scaled solid box is not wider than the
\* canvas, the final left offset leaves the scaled solid box at least
\* round(canvasWidth x 0.05) pixels away from the left and from the right
\* canvas edge.
C7_EdgeMarginOnBothSides ==
    (/\ Planned
     /\ plan.mode = "exterior"
     /\ RatLe(RatMul(RatInt(plan.setup.solidWidth), plan.scale), RatInt(plan.canvasWidth))) =>
        /\ RatGe(FinalSolidLeft, RatInt(Round(Rat(5 * plan.canvasWidth, 100))))
        /\ RatLe(FinalSolidRight,
                 RatInt(plan.canvasWidth - Round(Rat(5 * plan.canvasWidth, 100))))

\* the width of the solid box analyzeSubjectBounds reports for the cutout
CutoutSolidWidth ==
    LET solid == AnalyzeRegions(cutout).solid IN solid.maxX - solid.minX + 1

\* C10: isReprocessed is true exactly when the raw upload is 1920 wide and
\* 1080 high; then the target fraction the solver gets is the cutout's solid
\* width divided by the original image width, clamped to [0.60, 0.95], and
\* otherwise it is the caller's fraction.
C10_ReprocessedKeepsCarScale ==
    (pc \in {"composite", "planned"}) =>
        /\ is16by9 = (upload.width = 1920 /\ upload.height = 1080)
        /\ is16by9 =>
              LET fraction == Rat(CutoutSolidWidth, upload.width)
              IN  effectiveCarScale =
                     IF RatLt(fraction, Rat(60, 100)) THEN Rat(60, 100)
                     ELSE IF RatGt(fraction, Rat(95, 100)) THEN Rat(95, 100)
                     ELSE fraction
        /\ ~is16by9 =>
              effectiveCarScale =
                 IF profileCarScale = 0 THEN Rat(82, 100) ELSE Rat(profileCarScale, 100)
        /\ Planned =>
              /\ plan.setup.targetPct = effectiveCarScale
              /\ plan.setup.isReprocessed = is16by9

\* a 1920 x 1080 upload whose solid box is 1440 wide, 75% of the frame, is
\* planned with the target fraction 0.75 although the profile asks for 0.95
C10_Witness ==
    /\ Planned
    /\ is16by9
    /\ upload.width = 1920
    /\ CutoutSolidWidth = 1440
    /\ profileCarScale = 95
    /\ effectiveCarScale = Rat(75, 100)
    /\ plan.setup.targetPct = Rat(75, 100)

\* C11: a 1920 x 1080 upload whose solid width is a fraction f in [0.60, 0.95]
\* of the frame is planned, as an exterior with isReprocessed, at a scale
\* within 2% of 1 and with a scaled solid width within 2% of the canvas width
\* of f x canvasWidth.
C11_ReprocessingKeepsWidth ==
    (/\ Planned
     /\ is16by9
     /\ plan.mode = "exterior"
     /\ RatGe(Rat(CutoutSolidWidth, upload.width), Rat(60, 100))
     /\ RatLe(Rat(CutoutSolidWidth, upload.width), Rat(95, 100))) =>
        /\ RatGe(plan.scale, Rat(98, 100))
        /\ RatLe(plan.scale, Rat(102, 100))
        /\ RatGe(plan.widthPct, RatSub(Rat(CutoutSolidWidth, upload.width), Rat(2, 100)))
        /\ RatLe(plan.widthPct, RatAdd(Rat(CutoutSolidWidth, upload.width), Rat(2, 100)))

\* C12: when decoding the cutout fails anywhere inside analyzeSubjectBounds,
\* the failure is not propagated and the analysis returned has both boxes
\* invalid and full-frame, all six ratios equal to 1 and hasAlpha = false.
C12_DecodeFailureFallsBack ==
    (pc # "analyze" /\ cutout.decode # "ok") =>
        /\ pc # "threw"
        /\ analysis # None
        /\ ~analysis.hasAlpha
        /\ analysis.soft = FullFrameInvalid(analysis.bufferWidth, analysis.bufferHeight)
        /\ analysis.solid = FullFrameInvalid(analysis.bufferWidth, analysis.bufferHeight)
        /\ analysis.softCoverage = RatInt(1)
        /\ analysis.solidCoverage = RatInt(1)
        /\ analysis.softWidthPct = RatInt(1)
        /\ analysis.softHeightPct = RatInt(1)
        /\ analysis.bottomTouchRatio = RatInt(1)
        /\ analysis.opaqueRatio = RatInt(1)

\* the analyzer's box b is well formed for the qualifying alpha threshold
WellFormedBox(b, threshold) ==
    LET qualifies ==
            /\ cutout.decode = "ok"
            /\ \E i \in 1..Len(cutout.px) : EnsureAlpha(cutout)[i].a > threshold
    IN  /\ b.valid = qualifies
        /\ b.valid =>
              /\ 0 <= b.minX /\ b.minX <= b.maxX /\ b.maxX <= analysis.bufferWidth - 1
              /\ 0 <= b.minY /\ b.minY <= b.maxY /\ b.maxY <= analysis.bufferHeight - 1
        /\ ~b.valid =>
              /\ b.minX = 0 /\ b.maxX = analysis.bufferWidth - 1
              /\ b.minY = 0 /\ b.maxY = analysis.bufferHeight - 1
        /\ b.maxX - b.minX + 1 >= 1
        /\ b.maxY - b.minY + 1 >= 1

\* C16: every box the analyzer returns is well formed: a valid box has
\* minX <= maxX and minY <= maxY, a box that collected no qualifying pixel is
\* invalid and is the full image extent, and no box is empty or of negative
\* size.
C16_BoxesWellFormed ==
    Analyzed => /\ WellFormedBox(analysis.soft, 20)
                /\ WellFormedBox(analysis.solid, 200)

\* a raster with soft pixels and no solid pixel: the soft box is valid and
\* smaller than the frame, the solid box is invalid and the full frame
C16_Witness ==
    /\ Analyzed
    /\ cutout.decode = "ok"
    /\ analysis.soft.valid
    /\ analysis.soft.minX > 0
    /\ ~analysis.solid.valid
    /\ analysis.solid.minX = 0
    /\ analysis.solid.maxX = cutout.width - 1
    /\ cutout.width > 1

\* C17: in every exterior plan the scaled subject fits the canvas,
\* round(paddedWidth x scale) <= canvasWidth and round(paddedHeight x scale)
\* <= canvasHeight, and the lowest solid pixel is not below the floor line:
\* final top + solidBottom x scale <= floorY + 1.
C17_FitsCanvasAndFloor ==
    (Planned /\ plan.mode = "exterior") =>
        /\ Round(RatMul(RatInt(plan.setup.paddedWidth), plan.scale)) <= plan.canvasWidth
        /\ Round(RatMul(RatInt(plan.setup.paddedHeight), plan.scale)) <= plan.canvasHeight
        /\ plan.scaledWidth <= plan.canvasWidth
        /\ plan.scaledHeight <= plan.canvasHeight
        /\ RatLe(FinalSolidBottom, RatInt(plan.floorY + 1))

\* an exterior plan whose scale is the floor constraint floorY / solidBottom,
\* smaller than the width rule's scale and than both canvas fits, and whose
\* solid bottom rests on the floor line
C17_Witness ==
    /\ Planned
    /\ plan.mode = "exterior"
    /\ plan.scale = Rat(plan.floorY, plan.setup.solidBottom)
    /\ RatLt(plan.scale, plan.ruleScale)
    /\ RatLt(plan.scale, Rat(plan.canvasWidth, plan.setup.paddedWidth))
    /\ RatLt(plan.scale, Rat(plan.canvasHeight, plan.setup.paddedHeight))
    /\ FinalSolidBottom = RatInt(plan.floorY)

\* C18: in every exterior plan 0 <= left <= canvasWidth - scaledWidth and
\* 0 <= top <= canvasHeight - scaledHeight: the scaled subject rectangle lies
\* inside the canvas.
C18_OffsetsInsideCanvas ==
    (Planned /\ plan.mode = "exterior") =>
        /\ RatGe(plan.clampedLeft, RatInt(0))
        /\ RatLe(plan.clampedLeft, RatInt(plan.canvasWidth - plan.scaledWidth))
        /\ 0 <= plan.clampedTop
        /\ plan.clampedTop <= plan.canvasHeight - plan.scaledHeight

\* an exterior plan whose centring asked for an offset right of the canvas'
\* free width and for a top below its free height, both cut back by the clamp
C18_Witness ==
    /\ Planned
    /\ plan.mode = "exterior"
    /\ RatGt(plan.adjustedCarLeft, RatInt(plan.canvasWidth - plan.scaledWidth))
    /\ plan.clampedLeft = RatInt(plan.canvasWidth - plan.scaledWidth)
    /\ plan.carTop > plan.canvasHeight - plan.scaledHeight
    /\ plan.clampedTop = plan.canvasHeight - plan.scaledHeight

\* solidWidth / canvasWidth before the width rule
InitialWidthPct == Rat(plan.setup.solidWidth, plan.canvasWidth)

\* solidWidth x scale / canvasWidth after the last change of scale
FinalWidthPct ==
    RatDiv(RatMul(RatInt(plan.setup.solidWidth), plan.scale), RatInt(plan.canvasWidth))

\* C19: with minPct = max(0.50, target - 0.12) and maxPct = min(0.95,
\* target + 0.08), or 0.98 when isReprocessed, the scaled solid width divided
\* by canvasWidth of an exterior plan never exceeds maxPct, and is at least
\* minPct whenever the max-scale-to-fit clamp did not reduce the scale.
C19_WidthBetweenMinAndMax ==
    (Planned /\ plan.mode = "exterior") =>
        LET target == effectiveCarScale
            lowest == IF RatLt(RatSub(target, Rat(12, 100)), Rat(1, 2))
                      THEN Rat(1, 2) ELSE RatSub(target, Rat(12, 100))
            highest == IF is16by9 THEN Rat(98, 100)
                       ELSE IF RatLt(RatAdd(target, Rat(8, 100)), Rat(95, 100))
                       THEN RatAdd(target, Rat(8, 100)) ELSE Rat(95, 100)
        IN  /\ plan.setup.minPct = lowest
            /\ plan.setup.maxPct = highest
            /\ RatLe(FinalWidthPct, highest)
            /\ RatLe(plan.ruleScale, plan.maxScaleToFit) => RatGe(FinalWidthPct, lowest)

\* an exterior plan whose solid box was narrower than minPct of the canvas
\* and was scaled up to exactly minPct, the fit clamp leaving the scale alone
C19_Witness ==
    /\ Planned
    /\ plan.mode = "exterior"
    /\ RatLt(InitialWidthPct, plan.setup.minPct)
    /\ RatGt(plan.ruleScale, RatInt(1))
    /\ plan.scale = plan.ruleScale
    /\ FinalWidthPct = plan.setup.minPct

\* an exterior plan made with the default target fraction 0.82 of a request
\* that is not a reprocessing, the fit clamp leaving the width rule's scale
DefaultExteriorPlan ==
    /\ Planned
    /\ plan.mode = "exterior"
    /\ ~is16by9
    /\ profileCarScale = 0
    /\ RatLe(plan.ruleScale, plan.maxScaleToFit)

-----------------------------------------------------------------------------
(* Specification SpecRequest: one request from the decoded upload to the     *)
(* response, with the answers of the removal service, the stored logo, the   *)
(* backgrounds and the environment of the process as inputs                  *)

RequestUploads == {[width |-> 1920, height |-> 1080], [width |-> 1600, height |-> 900]}

\* a body in the middle of the photo with and without ground shadow, a half
\* transparent subject, nothing, and a picture without alpha channel
RequestSubjects(meta) ==
    {s \in Subjects(meta) :
        /\ s.body \in {None, GridBox(meta, 1, 3, 1, 3)}
        /\ s.shadow \in {None, GridBox(meta, 1, 3, 1, 3),
                          GroundShadow(meta, GridBox(meta, 1, 3, 1, 3))}}

Envs ==
    {[NODE_ENV |-> n, PROCESS_DEBUG_OVERLAY |-> f] :
        n \in {"production", "development"}, f \in {"", "1", "true"}}

\* the cutout, a body that is not an image, and error answers
ServiceAnswers ==
    {[status |-> 200, body |-> "cutout"],
     [status |-> 200, body |-> "notAnImage"],
     [status |-> 400, body |-> "invalid_file_type"],
     [status |-> 402, body |-> "insufficient_credits"],
     [status |-> 500, body |-> "internal_error"]}

LogoObject(downloadError, decodes, width, height) ==
    [downloadError |-> downloadError, decodes |-> decodes, width |-> width, height |-> height]

\* no logo, a logo of the usual shape, one the download fails for, a file
\* that is not an image, a strip that resizes to no rows, and a tall banner
Logos ==
    {None,
     LogoObject(FALSE, TRUE, 500, 200),
     LogoObject(TRUE, TRUE, 500, 200),
     LogoObject(FALSE, FALSE, 0, 0),
     LogoObject(FALSE, TRUE, 2000, 2),
     LogoObject(FALSE, TRUE, 100, 1200)}

Backgrounds ==
    {[user |-> u, template |-> t] :
        u \in {"none", "image", "notAnImage"}, t \in {"image", "missing"}}

InitRequest ==
    /\ BatchIdle
    /\ pc = "detect"
    /\ upload \in RequestUploads
    /\ profileCarScale = 0
    /\ subject \in RequestSubjects(upload)
    /\ is16by9 = None
    /\ effectiveCarScale = None
    /\ plan = None
    /\ cutout = None
    /\ analysis = None
    /\ classification = None
    /\ analysisB = None
    /\ classificationB = None
    /\ ShadowIdle
    /\ env \in Envs
    /\ service \in ServiceAnswers
    /\ logo \in Logos
    /\ background \in Backgrounds
    /\ RequestStart

\* compositeImage returns the final picture
Composite ==
    /\ pc = "planned"
    /\ ~CompositeThrows(plan, background, logoBuffer)
    /\ output' = Composited(plan, background, logoBuffer, env)
    /\ pc' = "composited"
    /\ UNCHANGED <<batchVars, analysisVars, shadowVars, planVars, env, service, logo, background,
                   serviceCalls, logoBuffer, stored, response>>

\* compositeImage rejects: POST's catch answers with the error's message
CompositeFails ==
    /\ pc = "planned"
    /\ CompositeThrows(plan, background, logoBuffer)
    /\ response' = ErrorResponse(Error("sharp error", None, None))
    /\ pc' = "responded"
    /\ UNCHANGED <<batchVars, analysisVars, shadowVars, planVars, env, service, logo, background,
                   serviceCalls, logoBuffer, output, stored>>

\* the upload of the final picture to the bucket outputs, and the answer
StoreOutput ==
    /\ pc = "composited"
    /\ stored' = stored \cup {"outputs"}
    /\ response' = SuccessResponse(output.mode)
    /\ pc' = "responded"
    /\ UNCHANGED <<batchVars, analysisVars, shadowVars, planVars, env, service, logo, background,
                   serviceCalls, logoBuffer, output>>

NextRequest ==
    \/ DetectReprocessed
    \/ RemoveBackground
    \/ RemoveBackgroundFails
    \/ EffectiveCarScale
    \/ CompositeExterior
    \/ CompositeInterior
    \/ Composite
    \/ CompositeFails
    \/ StoreOutput

SpecRequest == InitRequest /\ [][NextRequest]_vars

Responded == pc = "responded"

\* the removal call failed: a non-success status, or a body that is no cutout
RemovalFailed == ~ResponseOk(service) \/ service.body # "cutout"

\* C13: when the removal service answers with a non-success status or with a
\* body that is not an image, the request stops at removeBackground: the
\* response is an error (status 500) whose message names the failure (the
\* service's status and text, the invalid file type, or the decoder's
\* complaint, never the generic 'Processing failed'), the service has been
\* called exactly once, nothing has been planned or composited, and the
\* bucket outputs has not been written.
C13_RemovalFailureAbortsRequest ==
    /\ serviceCalls <= 1
    /\ (RemovalFailed /\ pc \notin {"detect", "removeBg"}) =>
          /\ Responded
          /\ response.status = 500
          /\ response.error \in
                {"Remove.bg API error",
                 "Invalid file type. Please upload a JPG, PNG, WebP, AVIF, or HEIC image.",
                 "Input buffer contains unsupported image format"}
          /\ response.error = "Remove.bg API error" =>
                /\ response.detail.status = service.status
                /\ response.detail.errorText = service.body
          /\ serviceCalls = 1
          /\ cutout = None /\ plan = None /\ output = None
          /\ "outputs" \notin stored

\* a request the service answered with status 200 and a body that is not an
\* image, ended with an error response and only the original stored
C13_Witness ==
    /\ Responded
    /\ service = [status |-> 200, body |-> "notAnImage"]
    /\ response.status = 500
    /\ serviceCalls = 1
    /\ stored = {"originals"}
    /\ output = None

\* the logo gives no layer: none stored, the download failed, or the try
\* block around its processing threw
LogoSkipped == LogoLayer(DownloadLogo(logo), plan.canvasWidth, LOGO_WIDTH_PERCENT) = None

\* C14: whatever the logo and the backgrounds are, a request whose cutout was
\* returned and can be laid on the canvas ends with the final picture stored
\* and a success response; without a logo layer when no logo is stored or its
\* processing throws, and on the generated grey background when an exterior
\* request has neither a user background nor the template file.
C14_OptionalAssetsNeverFail ==
    (Responded /\ plan # None /\ ~CutoutThrows(plan)) =>
        /\ response.status = 200
        /\ output # None
        /\ "outputs" \in stored
        /\ LogoSkipped => ~output.logo
        /\ (plan.mode = "exterior" /\ background = [user |-> "none", template |-> "missing"])
              => output.background = "fallback"

\* C15: a composited picture carries the overlay exactly when NODE_ENV is not
\* 'production' and PROCESS_DEBUG_OVERLAY is '1' (floor line, soft and solid
\* rectangle in exterior mode, the soft rectangle in interior mode); with
\* NODE_ENV = 'production' no picture of either mode carries any of it,
\* whatever the flag, the logo and the backgrounds are.
C15_OverlayOnlyInDevelopment ==
    output # None =>
        /\ output.overlay # {} <=>
              (env.NODE_ENV # "production" /\ env.PROCESS_DEBUG_OVERLAY = "1")
        /\ env.NODE_ENV = "production" => output.overlay = {}
        /\ output.overlay \in
              {{}, IF output.mode = "exterior"
                   THEN {"floorLine", "softRect", "solidRect"}
                   ELSE {"softRect"}}

\* an exterior picture made in production with PROCESS_DEBUG_OVERLAY = '1':
\* it has its logo and no overlay
C15_Witness ==
    /\ output # None
    /\ env = [NODE_ENV |-> "production", PROCESS_DEBUG_OVERLAY |-> "1"]
    /\ output.mode = "exterior"
    /\ output.logo
    /\ output.overlay = {}

\* where the centre of the scaled soft box lands on the canvas
FinalSoftCentreX == RatAdd(plan.clampedLeft, RatMul(plan.setup.softCenterX, plan.scale))

FinalSoftCentreY ==
    RatAdd(RatInt(plan.clampedTop), RatMul(plan.setup.softCenterY, plan.scale))

\* |a - b| <= 1
WithinOnePixel(a, b) ==
    RatLe(RatSub(a, b), RatInt(1)) /\ RatLe(RatSub(b, a), RatInt(1))

\* the scale of the interior branch as the four fits name it
InteriorScaleOfFits(s) ==
    clamp(RatMin(RatMin(RatDiv(Rat(9 * s.canvasWidth, 10), RatInt(s.softWidth)),
                        RatDiv(Rat(9 * s.canvasHeight, 10), RatInt(s.softHeight))),
                 RatMin(Rat(s.canvasWidth, s.paddedWidth),
                        Rat(s.canvasHeight, s.paddedHeight))),
          Rat(1, 10), RatInt(2))

\* C21: in every interior plan the scale is the least of 0.9 x canvasWidth /
\* softWidth, 0.9 x canvasHeight / softHeight, canvasWidth / paddedWidth and
\* canvasHeight / paddedHeight, clamped to [0.1, 2], and the centre of the
\* scaled soft box is placed within one pixel of the canvas centre on both
\* axes.
C21_InteriorCentresSoftBox ==
    (Planned /\ plan.mode = "interior") =>
        /\ plan.scale = InteriorScaleOfFits(plan.setup)
        /\ WithinOnePixel(FinalSoftCentreX, Rat(plan.canvasWidth, 2))
        /\ WithinOnePixel(FinalSoftCentreY, Rat(plan.canvasHeight, 2))

-----------------------------------------------------------------------------
(* Specification SpecPipeline: compositeImage from its first line to the     *)
(* padded buffer and the translated boxes, pixel by pixel                    *)

\* the side of a raster whose centre pixel lies featherPx from every edge
FramedSide == 2 * featherPx + 1

\* transparent rasters of FramedSide x FramedSide pixels with a pixel of any
\* level in the centre and a body pixel or nothing above it
FramedRasters ==
    {[width |-> FramedSide, height |-> FramedSide, hasAlpha |-> TRUE, decode |-> "ok",
      px |-> [i \in 1..(FramedSide * FramedSide) |->
                IF i = featherPx * FramedSide + featherPx + 1 THEN Pixel(1, centre)
                ELSE IF i = (featherPx - 1) * FramedSide + featherPx + 1 THEN Pixel(2, above)
                ELSE Pixel(0, 0)]] :
        centre \in AlphaLevels \cup {150, 220}, above \in {0, 255}}

PipelineRasters == PairRasters \cup OpaqueRasters \cup FramedRasters

InitPipeline ==
    /\ BatchIdle
    /\ pc = "analyze"
    /\ cutout \in PipelineRasters
    /\ shadowIntensity \in {50, 100}
    /\ analysis = None
    /\ classification = None
    /\ analysisB = None
    /\ classificationB = None
    /\ adjusted = None
    /\ faded = None
    /\ blurred = None
    /\ softened = None
    /\ padded = None
    /\ PlanIdle

\* const shadowAdjustedCutout = await adjustShadowIntensity(cutoutBuffer, shadowIntensity),
\* after analyzeSubjectBounds and classifyPhotoMode have returned
ConditionIntensity ==
    /\ pc = "classified"
    /\ adjusted' = adjustShadowIntensity(cutout, shadowIntensity)
    /\ pc' = "extend"
    /\ UNCHANGED <<batchVars, analysisVars, planVars, ioVars, padded, shadowIntensity, faded, blurred,
                   softened>>

\* sharp({ create: ... }).composite([{ input: softenedCutout, left, top }]):
\* the softened cutout on a transparent raster
PadRaster(buf, padding) ==
    LET newWidth == buf.width + padding.left + padding.right
        newHeight == buf.height + padding.top + padding.bottom
    IN  [width |-> newWidth, height |-> newHeight, hasAlpha |-> TRUE, decode |-> "ok",
         px |-> [i \in 1..(newWidth * newHeight) |->
                   LET x == (i - 1) % newWidth
                       y == (i - 1) \div newWidth
                   IN  IF /\ x >= padding.left /\ x < padding.left + buf.width
                          /\ y >= padding.top /\ y < padding.top + buf.height
                       THEN buf.px[(y - padding.top) * buf.width + (x - padding.left) + 1]
                       ELSE Pixel(0, 0)]]

\* padCutoutForShadows' padding and composite, and the translation of the
\* analysed boxes by padding.left and padding.top
PadCutout ==
    /\ pc = "softened"
    /\ LET padding == padCutoutForShadows(adjusted)
       IN  padded' = [padding |-> padding,
                      paddedBuffer |-> PadRaster(softened, padding),
                      soft |-> PaddedBounds(analysis.soft, padding),
                      solid |-> PaddedBounds(analysis.solid, padding)]
    /\ pc' = "padded"
    /\ UNCHANGED <<batchVars, analysisVars, planVars, ioVars, shadowIntensity, adjusted, faded, blurred,
                   softened>>

NextPipeline ==
    \/ Analyze
    \/ Classify
    \/ ConditionIntensity
    \/ SoftenExtend
    \/ SoftenBlur
    \/ SoftenFeather
    \/ PadCutout

SpecPipeline == InitPipeline /\ [][NextPipeline]_vars

Padded == pc = "padded"

\* C22: when the padded buffer is ready for the solver, the analysis that
\* fed the classifier and feeds the solver is the analysis of the conditioned
\* cutout, the buffer after adjustShadowIntensity and softenShadowEdges.
C22_AnalyzerScansConditionedCutout ==
    Padded => analysis = analyzeSubjectBounds(softened)

\* the four coordinates of a box
Corners(b) == <<b.minX, b.maxX, b.minY, b.maxY>>

\* C23: the padding is round(3%) of the height above, round(10%) below and
\* round(3%) of the width on each side, and the translated soft and solid
\* boxes are the soft and solid boxes an analysis of the padded buffer gives.
C23_TranslatedBoundsArePaddedBounds ==
    Padded =>
        /\ padded.padding = [top |-> Round(Rat(3 * cutout.height, 100)),
                             bottom |-> Round(Rat(10 * cutout.height, 100)),
                             left |-> Round(Rat(3 * cutout.width, 100)),
                             right |-> Round(Rat(3 * cutout.width, 100))]
        /\ Corners(padded.soft) = Corners(analyzeSubjectBounds(padded.paddedBuffer).soft)
        /\ Corners(padded.solid) = Corners(analyzeSubjectBounds(padded.paddedBuffer).solid)

-----------------------------------------------------------------------------
(* Specification SpecConfig: the request of SpecPlan with stored settings    *)
(* inside and outside the ranges of the settings page                        *)

\* profile.car_scale: negative, below 60, inside 60..95, above 95
ConfigCarScales == {-50, 30, 75, 200}

\* profile.shadow_intensity: negative, inside 0..100, above 100
ConfigShadowIntensities == {-50, 50, 100, 150}

InitConfig ==
    /\ BatchIdle
    /\ pc = "detect"
    /\ upload \in RequestUploads
    /\ profileCarScale \in ConfigCarScales
    /\ subject \in Subjects(upload)
    /\ is16by9 = None
    /\ effectiveCarScale = None
    /\ plan = None
    /\ cutout = None
    /\ analysis = None
    /\ classification = None
    /\ analysisB = None
    /\ classificationB = None
    /\ shadowIntensity \in ConfigShadowIntensities
    /\ adjusted = None
    /\ faded = None
    /\ blurred = None
    /\ softened = None
    /\ padded = None
    /\ env = [NODE_ENV |-> "production", PROCESS_DEBUG_OVERLAY |-> ""]
    /\ service = [status |-> 200, body |-> "cutout"]
    /\ logo = None
    /\ background = [user |-> "none", template |-> "image"]
    /\ RequestStart

SpecConfig == InitConfig /\ [][NextPlan]_vars

\* C24: whatever car scale and shadow intensity the profile stores, a plan
\* has minPct <= maxPct, a scale above 0, a canvas of at least 1 x 1 pixels,
\* and box widths and heights (the divisors of the scale rules) of at least 1.
C24_OutOfRangeConfigDegradesGracefully ==
    Planned =>
        /\ RatLe(plan.setup.minPct, plan.setup.maxPct)
        /\ RatGt(plan.scale, RatInt(0))
        /\ plan.canvasWidth >= 1 /\ plan.canvasHeight >= 1
        /\ plan.setup.solidWidth >= 1 /\ plan.setup.solidHeight >= 1
        /\ plan.setup.softWidth >= 1 /\ plan.setup.softHeight >= 1

\* the blur step has run
Blurred == pc \in {"feather", "softened"}

\* C25: the horizontal blur leaves every pixel whose alpha is 0 or at least
\* 200 as it was, colour and alpha, and a pixel it changes had and has an
\* alpha between 1 and 199.
C25_BlurTouchesShadowOnly ==
    Blurred =>
        \A i \in 1..Len(faded) :
            /\ (faded[i].a = 0 \/ faded[i].a >= SHADOW_THRESHOLD) => blurred[i] = faded[i]
            /\ blurred[i] # faded[i] =>
                  /\ faded[i].a > 0 /\ faded[i].a < SHADOW_THRESHOLD
                  /\ blurred[i].a > 0 /\ blurred[i].a < SHADOW_THRESHOLD

\* a row in which the blur has changed a shadow pixel that lies between a
\* body pixel and a transparent one, both of which it has left alone
C25_Witness ==
    /\ Blurred
    /\ cutout.width = StripWidth
    /\ \E i \in 2..(Len(faded) - 1) :
          /\ blurred[i].a # faded[i].a
          /\ faded[i - 1].a >= SHADOW_THRESHOLD /\ blurred[i - 1] = faded[i - 1]
          /\ faded[i + 1].a = 0 /\ blurred[i + 1] = faded[i + 1]

\* no pixel of the cutout has alpha > 200
NoSolidPixel == \A i \in 1..Len(cutout.px) : cutout.px[i].a <= 200

\* C26: for a decodable cutout with alpha channel, opaqueRatio <=
\* solidCoverage <= softCoverage <= softWidthPct x softHeightPct <= 1, and
\* the classifier answers interior exactly when the cutout has no pixel of
\* alpha > 200 or opaqueRatio > 0.995.
C26_CoverageChainDecidesInterior ==
    (pc = "classified" /\ cutout.decode = "ok" /\ cutout.hasAlpha) =>
        /\ RatLe(analysis.opaqueRatio, analysis.solidCoverage)
        /\ RatLe(analysis.solidCoverage, analysis.softCoverage)
        /\ RatLe(analysis.softCoverage,
                 RatMul(analysis.softWidthPct, analysis.softHeightPct))
        /\ RatLe(RatMul(analysis.softWidthPct, analysis.softHeightPct), RatInt(1))
        /\ classification.mode = "interior" <=>
              (NoSolidPixel \/ RatGt(analysis.opaqueRatio, Rat(995, 1000)))

\* a cutout with one pixel that is not opaque, classified interior by its
\* opacity: opaqueRatio is 288/289 for a side of 17
C26_Witness ==
    /\ pc = "classified"
    /\ cutout.hasAlpha /\ cutout.decode = "ok"
    /\ ~NoSolidPixel
    /\ analysis.opaqueRatio = Rat(Len(cutout.px) - 1, Len(cutout.px))
    /\ Len(cutout.px) > 200
    /\ RatLt(analysis.solidCoverage, RatInt(1))
    /\ classification.mode = "interior"

\* ---------------------------------------------------------------------------
\* Wide, low uploads: the body reaches the edge margin while the padded cutout
\* is narrower than the canvas
\* ---------------------------------------------------------------------------

WideUploads == {[width |-> 1900, height |-> 1000], [width |-> 2000, height |-> 1000]}

InitWide ==
    /\ BatchIdle
    /\ pc = "detect"
    /\ upload \in WideUploads
    /\ profileCarScale \in ProfileCarScales
    /\ subject \in Subjects(upload)
    /\ is16by9 = None
    /\ effectiveCarScale = None
    /\ plan = None
    /\ cutout = None
    /\ analysis = None
    /\ classification = None
    /\ analysisB = None
    /\ classificationB = None
    /\ ShadowIdle
    /\ env = [NODE_ENV |-> "production", PROCESS_DEBUG_OVERLAY |-> ""]
    /\ service = [status |-> 200, body |-> "cutout"]
    /\ logo = None
    /\ background = [user |-> "none", template |-> "image"]
    /\ RequestStart

SpecWide == InitWide /\ [][NextPlan]_vars

\* C27: in every plan, exterior or interior, the offsets clampedLeft and
\* clampedTop handed to the compositor are whole numbers of pixels, the
\* edge-margin correction of the exterior branch included.
C27_OffsetsAreIntegers ==
    Planned =>
        /\ IsInteger(plan.clampedLeft)
        /\ plan.clampedTop \in Int

\* ---------------------------------------------------------------------------
\* Tall uploads: the padded cutout is more than ten times as high as the canvas
\* ---------------------------------------------------------------------------

TallUploads ==
    {[width |-> 1000, height |-> 10000], [width |-> 1920, height |-> 1080],
     [width |-> 1600, height |-> 1200]}

InitTall ==
    /\ BatchIdle
    /\ pc = "detect"
    /\ upload \in TallUploads
    /\ profileCarScale \in ProfileCarScales
    /\ subject \in Subjects(upload)
    /\ is16by9 = None
    /\ effectiveCarScale = None
    /\ plan = None
    /\ cutout = None
    /\ analysis = None
    /\ classification = None
    /\ analysisB = None
    /\ classificationB = None
    /\ ShadowIdle
    /\ env = [NODE_ENV |-> "production", PROCESS_DEBUG_OVERLAY |-> ""]
    /\ service = [status |-> 200, body |-> "cutout"]
    /\ logo = None
    /\ background = [user |-> "none", template |-> "image"]
    /\ RequestStart

SpecTall == InitTall /\ [][NextPlan]_vars

\* C28: in every interior plan the scaled padded cutout lies inside the canvas:
\* scaledWidth <= canvasWidth, scaledHeight <= canvasHeight,
\* 0 <= clampedLeft <= canvasWidth - scaledWidth and
\* 0 <= clampedTop <= canvasHeight - scaledHeight, whatever the scale clamp
\* and whether or not the upload is a reprocessed export.
C28_InteriorSubjectInsideCanvas ==
    (Planned /\ plan.mode = "interior") =>
        /\ plan.scaledWidth <= plan.canvasWidth
        /\ plan.scaledHeight <= plan.canvasHeight
        /\ RatGe(plan.clampedLeft, RatInt(0))
        /\ RatLe(plan.clampedLeft, RatInt(plan.canvasWidth - plan.scaledWidth))
        /\ plan.clampedTop >= 0
        /\ plan.clampedTop <= plan.canvasHeight - plan.scaledHeight

-----------------------------------------------------------------------------
(* The batch scheduler of the studio page: processAll, processNext and     *)
(* cancelProcessing.  The page runs on one thread: an action is one task   *)
(* of the event loop, run to its end or to its next await.                 *)

MAX_CONCURRENT == 3

\* the largest batch looked at (MAX_BATCH_SIZE is 50)
MaxBatch == 6

ImageIds == 1..MaxBatch

\* images.filter(img => img.status === 'pending').map(img => img.id), from index i
RECURSIVE PendingFrom(_, _)
PendingFrom(imgs, i) ==
    IF i > Len(imgs) THEN <<>>
    ELSE (IF imgs[i] = "pending" THEN <<i>> ELSE <<>>) \o PendingFrom(imgs, i + 1)

\* a loop condition that looks at the queue only
HasCapacityQueueOnly(proc, q) == Len(q) > 0

\* processing.size < MAX_CONCURRENT && queue.length > 0
HasCapacity(proc, q) == Cardinality(proc) < MAX_CONCURRENT /\ Len(q) > 0

\* a completion that leaves the id in the set
DeleteSkipped(proc, imageId) == proc

\* processing.delete(imageId)
Delete(proc, imageId) == proc \ {imageId}

\* The body of the while loop up to its await: queue.shift(), processing.add,
\* status 'processing', and the fetch of processImage.  fromPromiseAll tells
\* whether the worker is one of those processAll waits for with Promise.all.
TakeNext(run, fromPromiseAll) ==
    LET imageId == Head(run.queue)
    IN  [run EXCEPT !.queue = Tail(@),
                    !.processing = @ \cup {imageId},
                    !.images[imageId] = "processing",
                    !.inFlight = @ \cup {imageId},
                    !.submitted[imageId] = @ + 1,
                    !.awaited = IF fromPromiseAll THEN @ \cup {imageId} ELSE @]

\* one test of the while condition; the worker returns when it is false
WhileStep(run, fromPromiseAll) ==
    IF HasCapacity(run.processing, run.queue) THEN TakeNext(run, fromPromiseAll) ELSE run

\* processNext() up to its first await
processNext(run, fromPromiseAll) ==
    IF run.aborted THEN run ELSE WhileStep(run, fromPromiseAll)

\* Array(Math.min(MAX_CONCURRENT, pendingImages.length)).fill(null).map(() => processNext())
RECURSIVE StartWorkers(_, _)
StartWorkers(run, k) ==
    IF k = 0 THEN run ELSE StartWorkers(processNext(run, TRUE), k - 1)

\* A worker resumes after its request has settled: the new status, then
\* processing.delete(imageId), processNext() and the next test of its own loop.
Settle(run, imageId, status) ==
    LET settled == [run EXCEPT !.images[imageId] = status,
                               !.processing = Delete(@, imageId),
                               !.inFlight = @ \ {imageId},
                               !.awaited = @ \ {imageId}]
    IN  WhileStep(processNext(settled, FALSE), imageId \in run.awaited)

Run ==
    [images |-> images, queue |-> queue, processing |-> processing, inFlight |-> inFlight,
     submitted |-> submitted, awaited |-> awaited, aborted |-> aborted]

\* the variables of the process route while the studio page is looked at
RouteIdle ==
    /\ cutout = None
    /\ analysis = None
    /\ classification = None
    /\ analysisB = None
    /\ classificationB = None
    /\ ShadowIdle
    /\ PlanIdle

routeVars == <<analysisVars, shadowVars, planVars, ioVars>>

\* the studio page with a batch of files added and nothing processed yet
InitBatch ==
    /\ pc = "ready"
    /\ \E n \in 1..MaxBatch : images = [i \in 1..n |-> "pending"]
    /\ isProcessing = FALSE
    /\ pendingImages = {}
    /\ aborted = FALSE
    /\ queue = <<>>
    /\ processing = {}
    /\ inFlight = {}
    /\ submitted = [i \in DOMAIN images |-> 0]
    /\ awaited = {}
    /\ RouteIdle

\* the variables of the run after a task of the event loop
RunBecomes(run) ==
    /\ images' = run.images
    /\ queue' = run.queue
    /\ processing' = run.processing
    /\ inFlight' = run.inFlight
    /\ submitted' = run.submitted
    /\ awaited' = run.awaited

\* processAll up to await Promise.all(...); the button is shown while
\* !isProcessing && stats.pending > 0
ProcessAll ==
    /\ pc = "ready"
    /\ isProcessing = FALSE
    /\ PendingFrom(images, 1) # <<>>
    /\ LET pending == PendingFrom(images, 1)
           run == StartWorkers([images |-> images, queue |-> pending, processing |-> {},
                                inFlight |-> {}, submitted |-> [i \in DOMAIN images |-> 0],
                                awaited |-> {}, aborted |-> FALSE],
                               Min2(MAX_CONCURRENT, Len(pending)))
       IN  /\ pendingImages' = {pending[i] : i \in 1..Len(pending)}
           /\ RunBecomes(run)
    /\ aborted' = FALSE
    /\ isProcessing' = TRUE
    /\ pc' = "workers"
    /\ UNCHANGED routeVars

\* processImage returns: status 'done', and the worker goes on
RequestDone(imageId) ==
    /\ pc \in {"workers", "poll"}
    /\ imageId \in inFlight
    /\ RunBecomes(Settle(Run, imageId, "done"))
    /\ UNCHANGED <<routeVars, pc, isProcessing, pendingImages, aborted>>

\* processImage throws while the signal is not aborted: status 'failed', and
\* the worker goes on
RequestFails(imageId) ==
    /\ pc \in {"workers", "poll"}
    /\ imageId \in inFlight
    /\ RunBecomes(Settle(Run, imageId, "failed"))
    /\ UNCHANGED <<routeVars, pc, isProcessing, pendingImages, aborted>>

\* await Promise.all(...) returns: every worker it waits for has returned
PromiseAllResolves ==
    /\ pc = "workers"
    /\ awaited = {}
    /\ pc' = "poll"
    /\ UNCHANGED <<routeVars, batchVars>>

\* the polling loop ends (nothing in the set or the queue, or signal.aborted
\* after a sleep) and setIsProcessing(false)
PollLoopEnds ==
    /\ pc = "poll"
    /\ (processing = {} /\ queue = <<>>) \/ aborted
    /\ isProcessing' = FALSE
    /\ pc' = "ready"
    /\ UNCHANGED <<routeVars, images, pendingImages, aborted, queue, processing, inFlight,
                   submitted, awaited>>

\* cancelProcessing (its button is shown while isProcessing): abort() rejects
\* every fetch in flight with signal.aborted set, so each waiting worker
\* returns from its catch without touching the set
CancelProcessing ==
    /\ isProcessing = TRUE
    /\ aborted' = TRUE
    /\ isProcessing' = FALSE
    /\ images' = [i \in DOMAIN images |->
                    IF images[i] = "processing" THEN "pending" ELSE images[i]]
    /\ inFlight' = {}
    /\ awaited' = {}
    /\ UNCHANGED <<routeVars, pc, pendingImages, queue, processing, submitted>>

NextBatch ==
    \/ ProcessAll
    \/ \E imageId \in ImageIds : RequestDone(imageId)
    \/ \E imageId \in ImageIds : RequestFails(imageId)
    \/ PromiseAllResolves
    \/ PollLoopEnds
    \/ CancelProcessing

SpecBatch == InitBatch /\ [][NextBatch]_vars

\* every request settles in the end, and the event loop runs the tasks that
\* are ready (the resolution of Promise.all, the polling timer)
SpecBatchLive ==
    /\ SpecBatch
    /\ \A imageId \in ImageIds : WF_vars(RequestDone(imageId) \/ RequestFails(imageId))
    /\ WF_vars(PromiseAllResolves)
    /\ WF_vars(PollLoopEnds)

Terminated ==
    /\ pc = "ready"
    /\ ~aborted
    /\ isProcessing = FALSE
    /\ \A imageId \in pendingImages : images[imageId] \in {"done", "failed"}
    /\ \A i \in DOMAIN images : images[i] \notin {"pending", "processing"}

\* C30: if every request settles, a run of processAll that is not cancelled
\* returns, with every image that was pending at its start 'done' or 'failed',
\* no image 'pending' or 'processing', and isProcessing false.
C30_UncancelledRunTerminates == (pc = "workers") ~> (aborted \/ Terminated)

\* a batch larger than MAX_CONCURRENT has been worked off, one image failed
C30_Witness ==
    /\ Terminated
    /\ Cardinality(pendingImages) > MAX_CONCURRENT
    /\ \E i \in DOMAIN images : images[i] = "done"
    /\ \E i \in DOMAIN images : images[i] = "failed"

=============================================================================
